---- MODULE Spec2Model ----
(***************************************************************************)
(* sptth: local-zone DNS responder with spoof-checked forwarding           *)
(* (src/src/dns.rs, src/src/server.rs), root CA and leaf provisioning      *)
(* (src/src/ca.rs), the TLS certificate resolver (src/src/tls.rs), the     *)
(* HTTPS reverse proxy (src/src/proxy.rs) and the boot sequence            *)
(* (src/src/server.rs).                                                    *)
(*                                                                         *)
(* Strings are modelled as sequences of one-character strings so that the  *)
(* conversions of the code (normalize_domain, Name::to_ascii,              *)
(* Name::from_ascii) are computed and not assumed.                         *)
(***************************************************************************)
EXTENDS Integers, Sequences, FiniteSets, TLC

VARIABLES
    upstream,   \* DnsConfig.upstream: the ordered list of upstream resolvers
    ttl,        \* DnsConfig.ttl_seconds
    tasks,      \* the handler tasks spawned by run_dns, by spawn order
    ntasks,     \* how many packets run_dns has received (and tasks spawned)
    buf,        \* the receive buffer of run_dns, up to the size last received
    fs,         \* the files under ca_dir and cert_dir
    boot,       \* the position of server::run and what it has done
    nkeys,      \* how many key pairs KeyPair::generate has produced
    trust,      \* the root certificates in the OS trust store
    now,        \* the system clock, in seconds
    resolver,   \* the DomainCertResolver of the TLS server configuration
    conns,      \* the connection tasks spawned by proxy::run, by accept order
    args,       \* the arguments of a function under test
    call        \* the last call of a function under test and what it returned

dnsvars == <<upstream, ttl, tasks, ntasks, buf>>
bootvars == <<fs, boot, nkeys, trust, now>>
proxyvars == <<resolver, conns>>
fnvars == <<args, call>>
vars == <<upstream, ttl, tasks, ntasks, buf, fs, boot, nkeys, trust, now,
          resolver, conns, args, call>>

----------------------------------------------------------------------------
(* Bounds of the model *)

\* packets received by run_dns in one run
MaxTasks == 2
\* datagrams received on one ephemeral resolver socket
MaxDatagrams == 2
\* boots of the server in one run
MaxBoots == 2

----------------------------------------------------------------------------
(* Strings and domain normalization: src/src/config.rs *)

RECURSIVE TrimStart(_)
TrimStart(s) ==
    IF s # <<>> /\ Head(s) = " " THEN TrimStart(Tail(s)) ELSE s

RECURSIVE TrimEnd(_)
TrimEnd(s) ==
    IF s # <<>> /\ s[Len(s)] = " " THEN TrimEnd(SubSeq(s, 1, Len(s) - 1)) ELSE s

\* str::trim
Trim(s) == TrimEnd(TrimStart(s))

\* str::trim_end_matches('.'): removes every trailing dot
RECURSIVE TrimEndDots(_)
TrimEndDots(s) ==
    IF s # <<>> /\ s[Len(s)] = "." THEN TrimEndDots(SubSeq(s, 1, Len(s) - 1)) ELSE s

LowerChar(c) ==
    CASE c = "A" -> "a"
      [] c = "B" -> "b"
      [] c = "C" -> "c"
      [] c = "D" -> "d"
      [] c = "X" -> "x"
      [] OTHER -> c

\* str::to_ascii_lowercase
ToAsciiLowercase(s) == [i \in 1..Len(s) |-> LowerChar(s[i])]

\* config::normalize_domain
normalize_domain(input) == ToAsciiLowercase(TrimEndDots(Trim(input)))

----------------------------------------------------------------------------
(* Socket addresses *)

SockAddr(ip, port) == [ip |-> ip, port |-> port]

\* DnsConfig.ttl_seconds when the configuration gives none
DefaultTtl == 30

\* the DNS configurations of this model: one upstream with the default TTL,
\* and two upstreams with ttl_seconds = 1
DnsConfigs ==
    { [upstream |-> <<SockAddr("1.1.1.1", 53)>>, ttl_seconds |-> DefaultTtl],
      [upstream |-> <<SockAddr("1.1.1.1", 53), SockAddr("9.9.9.9", 53)>>,
       ttl_seconds |-> 1] }

\* the sources a datagram on an ephemeral socket can come from: the
\* upstreams (9.9.9.9 is an unrelated host when it is not configured) and an
\* upstream's IP with another port
Sources ==
    { SockAddr("1.1.1.1", 53), SockAddr("9.9.9.9", 53), SockAddr("1.1.1.1", 5353) }

\* the clients of the DNS responder
Peer1 == SockAddr("127.0.0.1", 40001)

Peer2 == SockAddr("127.0.0.2", 40002)

----------------------------------------------------------------------------
(* DNS names: hickory_proto::rr::Name as the code uses it *)

\* Name::to_ascii of a name decoded from the wire: every label followed by
\* a dot, the root name being "."
RECURSIVE JoinLabels(_)
JoinLabels(labels) ==
    IF labels = <<>> THEN <<>>
    ELSE Head(labels) \o <<".">> \o JoinLabels(Tail(labels))

NameToAscii(labels) == IF labels = <<>> THEN <<".">> ELSE JoinLabels(labels)

\* the labels of a dotted string, an empty label ending the scan with an
\* error (Name::from_ascii rejects "a..d")
RECURSIVE SplitLabels(_, _, _)
SplitLabels(s, cur, acc) ==
    IF s = <<>> THEN
        IF cur = <<>> THEN [ok |-> acc # <<>> , labels |-> acc]
        ELSE [ok |-> TRUE, labels |-> Append(acc, cur)]
    ELSE IF Head(s) = "." THEN
        IF cur = <<>> THEN [ok |-> FALSE, labels |-> <<>>]
        ELSE SplitLabels(Tail(s), <<>>, Append(acc, cur))
    ELSE SplitLabels(Tail(s), Append(cur, Head(s)), acc)

\* Name::from_ascii
NameFromAscii(s) ==
    IF s = <<>> \/ s = <<".">> THEN [ok |-> TRUE, labels |-> <<>>]
    ELSE SplitLabels(s, <<>>, <<>>)

----------------------------------------------------------------------------
(* The local zone *)

\* the [[record]] rows of the configuration, as written by the user
RawRecords ==
    << [domain |-> <<"A", ".", "d", ".">>,
        A |-> <<"10.0.0.1", "10.0.0.2">>, AAAA |-> <<"fd00::1">>],
       [domain |-> <<" ", "b", ".", "d">>,
        A |-> <<"10.0.0.3">>, AAAA |-> <<>>],
       [domain |-> <<"c", ".", "d">>,
        A |-> <<>>, AAAA |-> <<"fd00::2", "fd00::3">>] >>

\* AppConfig.records: normalized domain -> DomainAddrs
Records ==
    [d \in {normalize_domain(RawRecords[i].domain) : i \in DOMAIN RawRecords} |->
        LET row == CHOOSE r \in {RawRecords[i] : i \in DOMAIN RawRecords} :
                       normalize_domain(r.domain) = d
        IN  [ipv4 |-> row.A, ipv6 |-> row.AAAA]]

----------------------------------------------------------------------------
(* Client packets: what Message::from_vec makes of them *)

Query(labels, qtype) == [name |-> labels, query_type |-> qtype]

Request(id, op, rd, queries) ==
    [wf |-> TRUE, id |-> id, op_code |-> op, recursion_desired |-> rd,
     queries |-> queries]

\* bytes that Message::from_vec rejects
Malformed ==
    [wf |-> FALSE, id |-> 0, op_code |-> "Query", recursion_desired |-> FALSE,
     queries |-> <<>>]

\* the datagrams the listen socket receives in this model, each with the
\* peer it comes from
ClientPackets ==
    { <<Malformed, Peer1>>,
      <<Request(5, "Query", TRUE, <<>>), Peer2>>,
      <<Request(7, "Query", TRUE, <<Query(<<<<"a">>, <<"d">>>>, "A")>>), Peer1>>,
      <<Request(9, "Status", FALSE, <<Query(<<<<"A">>, <<"D">>>>, "AAAA")>>), Peer2>>,
      <<Request(11, "Query", FALSE,
                <<Query(<<<<"a">>, <<"d">>>>, "ANY"), Query(<<<<"x">>, <<"d">>>>, "MX")>>),
        Peer1>>,
      <<Request(13, "Query", TRUE, <<Query(<<<<"b">>, <<"d">>>>, "AAAA")>>), Peer2>>,
      <<Request(15, "Query", TRUE, <<Query(<<<<"c">>, <<"d">>>>, "ANY")>>), Peer1>>,
      <<Request(17, "Query", TRUE, <<Query(<<<<"a">>, <<"d">>>>, "MX")>>), Peer2>>,
      <<Request(19, "Query", TRUE,
                <<Query(<<<<"x">>, <<"d">>>>, "A"), Query(<<<<"a">>, <<"d">>>>, "A")>>),
        Peer1>> }

----------------------------------------------------------------------------
(* Local answers: dns::local_response *)

ARecord(name, t, v4) == [name |-> name, ttl |-> t, rtype |-> "A", rdata |-> v4]

AAAARecord(name, t, v6) == [name |-> name, ttl |-> t, rtype |-> "AAAA", rdata |-> v6]

\* LocalAnswers with the two loops of the ANY arm exchanged
LocalAnswers_AaaaFirst(name, qtype, t, addrs) ==
    LET a4 == [i \in 1..Len(addrs.ipv4) |-> ARecord(name, t, addrs.ipv4[i])]
        a6 == [i \in 1..Len(addrs.ipv6) |-> AAAARecord(name, t, addrs.ipv6[i])]
    IN  CASE qtype = "A" -> a4
          [] qtype = "AAAA" -> a6
          [] qtype = "ANY" -> a6 \o a4
          [] OTHER -> <<>>

\* the answer section: the match on qtype
LocalAnswers(name, qtype, t, addrs) ==
    LET a4 == [i \in 1..Len(addrs.ipv4) |-> ARecord(name, t, addrs.ipv4[i])]
        a6 == [i \in 1..Len(addrs.ipv6) |-> AAAARecord(name, t, addrs.ipv6[i])]
    IN  CASE qtype = "A" -> a4
          [] qtype = "AAAA" -> a6
          [] qtype = "ANY" -> a4 \o a6
          [] OTHER -> <<>>

\* LocalHeader without set_op_code: the opcode stays that of Message::new
LocalHeader_DefaultOpCode(req, query) ==
    [id |-> req.id,
     message_type |-> "Response",
     op_code |-> "Query",
     recursion_desired |-> req.recursion_desired,
     recursion_available |-> TRUE,
     authoritative |-> TRUE,
     response_code |-> "NoError",
     queries |-> <<query>>]

\* the header and question section of the reply
LocalHeader(req, query) ==
    [id |-> req.id,
     message_type |-> "Response",
     op_code |-> req.op_code,
     recursion_desired |-> req.recursion_desired,
     recursion_available |-> TRUE,
     authoritative |-> TRUE,
     response_code |-> "NoError",
     queries |-> <<query>>]

\* the bytes a handler returns: an encoded local reply, or the bytes of a
\* datagram received from an upstream
MsgBytes(header, answers) ==
    [kind |-> "msg", header |-> header, answers |-> answers, dg |-> 0,
     src |-> SockAddr("", 0)]

NoBytes == [kind |-> "none", header |-> <<>>, answers |-> <<>>, dg |-> 0,
            src |-> SockAddr("", 0)]

Ok(via, bytes) == [ok |-> TRUE, via |-> via, bytes |-> bytes, err |-> ""]

Err(via, msg) == [ok |-> FALSE, via |-> via, bytes |-> NoBytes, err |-> msg]

local_response(req, query, qname, qtype, t, addrs) ==
    LET name == NameFromAscii(qname)
    IN  IF ~name.ok THEN Err("local", "invalid query name")
        ELSE Ok("local", MsgBytes(LocalHeader(req, query),
                                  LocalAnswers(name.labels, qtype, t, addrs)))

\* AnswersLocally without the test on qtype
AnswersLocally_AnyType(qname, qtype) == qname \in DOMAIN Records

\* the local-first test of handle_dns_packet
AnswersLocally(qname, qtype) ==
    /\ qname \in DOMAIN Records
    /\ qtype \in {"A", "AAAA", "ANY"}

\* is_valid_source comparing the IP alone
is_valid_source_IpOnly(from, expected) == from.ip = expected.ip

\* Check whether the response source exactly matches the expected upstream
is_valid_source(from, expected) == from = expected

----------------------------------------------------------------------------
(* The handler tasks of run_dns: src/src/server.rs, src/src/dns.rs *)

TaskIds == 1..MaxTasks

\* Socket for a code that binds one socket before the loop over the upstreams
Socket_PerTask(t, i) == [task |-> t, attempt |-> 1]

\* the ephemeral socket that task t binds for its attempt at the upstream at
\* position i: every bind gives a socket of its own
Socket(t, i) == [task |-> t, attempt |-> i]

\* the total wait for one upstream, in seconds
DeadlineSecs == 2

\* Remaining for a code that gives every recv_from the full window
Remaining_FullWindow(deadline, t) == DeadlineSecs

\* deadline.saturating_duration_since(Instant::now())
Remaining(deadline, t) == IF deadline > t THEN deadline - t ELSE 0

\* RequestBytes for a handler that reads the receive buffer of run_dns
RequestBytes_Shared(req_packet, shared) == shared

\* the bytes the spawned handler reads: req_packet, the copy that was moved
\* into its task, not the buffer that run_dns goes on receiving into
RequestBytes(req_packet, shared) == req_packet

NoSocket == Socket(0, 0)

\* a task that run_dns has not spawned yet. packet is the datagram received
\* for it and seen the bytes its handler has read; clock is the time since
\* the deadline of the current attempt was set and wake the time at which
\* the timeout of the pending recv_from fires, in seconds; reply_for is the
\* attempt to whose socket the returned datagram was addressed; legacy.on
\* says that the handler of src/src/main.rs is run on the same packet and
\* the same events, and legacy.ret is what it has returned, <<>> while it
\* has not
IdleTask ==
    [pc |-> "idle", packet |-> Malformed, peer |-> SockAddr("", 0),
     seen |-> Malformed, idx |-> 0, sock |-> NoSocket, nrecv |-> 0,
     clock |-> 0, wake |-> 0, reply_for |-> 0, result |-> Err("", ""),
     tried |-> <<>>, sentTo |-> <<>>, replies |-> <<>>, errlog |-> <<>>,
     legacy |-> [on |-> FALSE, ret |-> <<>>]]

\* the n-th datagram received on the ephemeral socket sock, sent by the
\* source from; its bytes are its own
Datagram(sock, from, n) ==
    [sock |-> sock, from |-> from,
     bytes |-> [kind |-> "raw", header |-> <<>>, answers |-> <<>>, dg |-> n,
                src |-> from]]

\* ShouldReply with a reply sent whatever the handler returned
ShouldReply_Always(res) == TRUE

\* the match on the handler's result in the spawned task: only Ok(resp) is
\* sent to the peer
ShouldReply(res) == res.ok

\* handle_dns_packet of main.rs returns res where the one of dns.rs does,
\* unless it has returned before: decoding, the local answer, the errors of
\* bind and send_to and the exhaustion of the list are the same code
LegacyReturned(legacy, res) ==
    IF legacy.on /\ legacy.ret = <<>>
    THEN [legacy EXCEPT !.ret = <<res>>]
    ELSE legacy

\* forward_dns_packet of main.rs when recv_from on its ephemeral socket
\* gives a datagram within the 2 s of its timeout: Ok(Ok((n, from))) returns
\* buf[..n] without a look at from
LegacyReceived(legacy, from, bytes) ==
    LegacyReturned(legacy, Ok("forward", bytes))

\* the spawned task once handle_dns_packet has returned res
Returned(task, res) ==
    IF ShouldReply(res)
    THEN [task EXCEPT !.pc = "respond", !.result = res,
                      !.legacy = LegacyReturned(@, res)]
    ELSE [task EXCEPT !.pc = "done", !.result = res,
                      !.legacy = LegacyReturned(@, res),
                      !.errlog = Append(@, "request handling failed")]

\* NextIndex that stays on the same upstream
NextIndex_Retry(i) == i

\* the upstream the for loop visits after the one at position i
NextIndex(i) == i + 1

\* one turn of `for server in upstream`: the socket of the previous turn, if
\* any, is dropped, and the body is entered for position i, or the list is
\* exhausted and the function bails
EnterAttempt(task, i) ==
    LET dropped == [task EXCEPT !.sock = NoSocket, !.nrecv = 0, !.clock = 0,
                                !.wake = 0]
    IN  IF i > Len(upstream)
        THEN Returned(dropped, Err("forward", "all upstream dns servers failed"))
        ELSE [dropped EXCEPT !.pc = "bind", !.idx = i, !.tried = Append(@, i)]

\* AtRecvFrom for a loop that awaits the handler of each packet before it
\* receives the next
AtRecvFrom_AwaitsHandler(ts, n) == \A t \in 1..n : ts[t].pc = "done"

\* whether run_dns is back at recv_from when it has spawned the tasks 1..n:
\* task::spawn returns at once and the JoinHandle is dropped, so the loop
\* is there whatever the tasks are doing
AtRecvFrom(ts, n) == TRUE

\* the peer of the latest datagram run_dns received
LatestPeer == IF ntasks = 0 THEN SockAddr("", 0) ELSE tasks[ntasks].peer

\* ReplyPeer for a task that sends to the peer last seen by the loop
ReplyPeer_Latest(own, latest) == latest

\* the address socket.send_to(&resp, peer) is given: peer was moved into the
\* task together with the packet
ReplyPeer(own, latest) == own

\* run_dns: recv_from on the listen socket, the copy of the packet, the spawn
RecvFrom(packet, peer) ==
    /\ ntasks < MaxTasks
    /\ AtRecvFrom(tasks, ntasks)
    /\ ntasks' = ntasks + 1
    /\ buf' = packet
    /\ tasks' = [tasks EXCEPT ![ntasks + 1] =
                    [IdleTask EXCEPT !.pc = "spawned", !.packet = buf',
                                     !.peer = peer, !.legacy = tasks[ntasks + 1].legacy]]
    /\ UNCHANGED <<upstream, ttl>>
    /\ UNCHANGED <<bootvars, proxyvars, fnvars>>

\* handle_dns_packet up to its first await
HandlePacket(t) ==
    /\ tasks[t].pc = "spawned"
    /\ LET req == RequestBytes(tasks[t].packet, buf)
           task == [tasks[t] EXCEPT !.seen = req]
       IN  tasks' = [tasks EXCEPT ![t] =
             IF ~req.wf
             THEN Returned(task, Err("decode", "invalid dns request packet"))
             ELSE IF req.queries = <<>>
             THEN Returned(task, Err("decode", "dns query is empty"))
             ELSE LET query == Head(req.queries)
                      qname == normalize_domain(NameToAscii(query.name))
                      qtype == query.query_type
                  IN  IF AnswersLocally(qname, qtype)
                      THEN Returned(task, local_response(req, query, qname, qtype,
                                                         ttl, Records[qname]))
                      ELSE EnterAttempt(task, 1)]
    /\ UNCHANGED <<upstream, ttl, ntasks, buf>>
    /\ UNCHANGED <<bootvars, proxyvars, fnvars>>

\* the start of the attempt at the current upstream: UdpSocket::bind of a
\* fresh ephemeral socket, then resolver.send_to(packet, server); the error
\* of either is returned with `?`
SendQuery(t, outcome) ==
    /\ tasks[t].pc = "bind"
    /\ LET sock == Socket(t, tasks[t].idx)
       IN  tasks' = [tasks EXCEPT ![t] =
             CASE outcome = "bind error" ->
                    Returned(tasks[t],
                             Err("bind", "failed to bind temporary dns socket"))
               [] outcome = "send error" ->
                    Returned(tasks[t], Err("send", "failed to forward dns query"))
               [] OTHER ->
                    [tasks[t] EXCEPT !.pc = "recv", !.sock = sock, !.nrecv = 0,
                                     !.clock = 0,
                                     !.wake = Remaining(DeadlineSecs, 0),
                                     !.sentTo = Append(@, [idx |-> tasks[t].idx,
                                                           to |-> upstream[tasks[t].idx],
                                                           sock |-> sock])]]
    /\ UNCHANGED <<upstream, ttl, ntasks, buf>>
    /\ UNCHANGED <<bootvars, proxyvars, fnvars>>

\* recv_from on the ephemeral socket returns, dt seconds after it was
\* called and not after its timeout, a datagram that some host sent to the
\* socket bound in attempt k: the socket read is the one of the current
\* turn. A reply of the upstream is returned; any other packet is dropped
\* and the loop computes what remains of the deadline, which ends the
\* attempt when nothing does
RecvReply(t, from, k, dt) ==
    /\ tasks[t].pc = "recv"
    /\ tasks[t].nrecv < MaxDatagrams
    /\ k \in DOMAIN tasks[t].sentTo
    /\ tasks[t].sentTo[k].sock = tasks[t].sock
    /\ tasks[t].clock + dt <= tasks[t].wake
    /\ LET n == tasks[t].nrecv + 1
           received ==
             [tasks[t] EXCEPT !.nrecv = n, !.clock = @ + dt,
                !.legacy = LegacyReceived(@, from,
                              Datagram(tasks[t].sock, from, n).bytes)]
           remaining == Remaining(DeadlineSecs, received.clock)
       IN  tasks' = [tasks EXCEPT ![t] =
             IF is_valid_source(from, upstream[tasks[t].idx])
             THEN Returned([received EXCEPT !.reply_for = k],
                           Ok("forward", Datagram(tasks[t].sock, from, n).bytes))
             ELSE IF remaining = 0
             THEN EnterAttempt(received, NextIndex(tasks[t].idx))
             ELSE [received EXCEPT !.wake = received.clock + remaining]]
    /\ UNCHANGED <<upstream, ttl, ntasks, buf>>
    /\ UNCHANGED <<bootvars, proxyvars, fnvars>>

\* recv_from on the ephemeral socket fails: break
RecvError(t) ==
    /\ tasks[t].pc = "recv"
    /\ tasks' = [tasks EXCEPT ![t] = EnterAttempt(tasks[t], NextIndex(tasks[t].idx))]
    /\ UNCHANGED <<upstream, ttl, ntasks, buf>>
    /\ UNCHANGED <<bootvars, proxyvars, fnvars>>

\* the time up to wake passes and the timeout of the pending recv_from
\* fires: break
Deadline(t) ==
    /\ tasks[t].pc = "recv"
    /\ tasks' = [tasks EXCEPT ![t] = EnterAttempt(tasks[t], NextIndex(tasks[t].idx))]
    /\ UNCHANGED <<upstream, ttl, ntasks, buf>>
    /\ UNCHANGED <<bootvars, proxyvars, fnvars>>

\* socket.send_to(&resp, peer) on the listen socket, and the log of its error
SendResponse(t, ok) ==
    /\ tasks[t].pc = "respond"
    /\ tasks' = [tasks EXCEPT ![t] =
          IF ok
          THEN [tasks[t] EXCEPT !.pc = "done",
                   !.replies = Append(@, [to |-> ReplyPeer(tasks[t].peer, LatestPeer),
                                          bytes |-> tasks[t].result.bytes])]
          ELSE [tasks[t] EXCEPT !.pc = "done",
                   !.errlog = Append(@, "failed to send response")]]
    /\ UNCHANGED <<upstream, ttl, ntasks, buf>>
    /\ UNCHANGED <<bootvars, proxyvars, fnvars>>

----------------------------------------------------------------------------
(* Certificate provisioning: src/src/ca.rs *)

\* TlsConfig.valid_days and TlsConfig.renew_before_days when the
\* configuration gives none
ValidDays == 90

RenewBeforeDays == 30

\* the seconds of a day, as should_reissue counts them
SecsPerDay == 24 * 60 * 60

Days(n) == n * SecsPerDay

\* the domains of AppConfig.proxies, in configuration order
ProxyDomains == << <<"a", ".", "d">>, <<"b", ".", "d">> >>

ProxyDomainSet == {ProxyDomains[k] : k \in DOMAIN ProxyDomains}

\* a String as format! writes it
RECURSIVE Str(_)
Str(s) == IF s = <<>> THEN "" ELSE Head(s) \o Str(Tail(s))

\* the file names cert_dir.join(format!("{}.pem", domain)) and
\* cert_dir.join(format!("{}.key", domain))
CertPath(domain) == Str(domain) \o ".pem"

KeyPath(domain) == Str(domain) \o ".key"

\* ca::IssuedCert
IssuedCert(domain) == [cert_path |-> CertPath(domain), key_path |-> KeyPath(domain)]

\* HashMap::insert
Insert(map, k, v) == [x \in DOMAIN map \cup {k} |-> IF x = k THEN v ELSE map[x]]

\* a file that does not exist, and a <domain>.pem written at mtime that
\* certifies the leaf key leafKey and is signed by the CA key issuer;
\* mtime_ok is whether fs::metadata and Metadata::modified succeed on it
NoPem == [exists |-> FALSE, mtime |-> 0, mtime_ok |-> TRUE, leafKey |-> 0, issuer |-> 0]

Pem(mtime, leafKey, issuer) ==
    [exists |-> TRUE, mtime |-> mtime, mtime_ok |-> TRUE, leafKey |-> leafKey,
     issuer |-> issuer]

\* the state of ca_dir and cert_dir: caKey is the key in rootCA-key.pem,
\* caCert the key that signed rootCA.pem, key[d] the key in <d>.key; 0 is a
\* file that does not exist
Files(caKey, caCert, pem, key) ==
    [caKey |-> caKey, caCert |-> caCert, pem |-> pem, key |-> key]

\* SaturatingSub for a code that renews at the age valid_days
SaturatingSub_Ignored(a, b) == a

\* u32::saturating_sub
SaturatingSub(a, b) == IF a > b THEN a - b ELSE 0

\* AgeReached for a code that renews only strictly after the threshold
AgeReached_Strict(age, renew_after_days) == age > renew_after_days * SecsPerDay

\* the last line of should_reissue: age >= renew_after_days * 24 * 60 * 60
AgeReached(age, renew_after_days) == age >= renew_after_days * SecsPerDay

\* ca::should_reissue on the file `file` at the clock value t (seconds)
should_reissue(file, t, valid_days, renew_before_days) ==
    IF ~file.exists THEN TRUE
    ELSE LET renew_after_days == SaturatingSub(valid_days, renew_before_days)
         IN  IF renew_after_days = 0 THEN TRUE
             ELSE IF ~file.mtime_ok THEN TRUE
             ELSE IF file.mtime > t THEN TRUE
             ELSE AgeReached(t - file.mtime, renew_after_days)

\* CaCreated for a code that takes the key alone as the sign of a new CA
CaCreated_KeyOnly(key_exists, cert_exists) == ~key_exists

\* the `created` flag of load_or_create_ca
CaCreated(key_exists, cert_exists) ==
    IF key_exists THEN ~cert_exists ELSE TRUE

\* WritesCaCert for a code that writes rootCA.pem on every run
WritesCaCert_Always(created) == TRUE

\* whether load_or_create_ca writes rootCA.pem
WritesCaCert(created) == created

\* ca::load_or_create_ca on the files `files`, `fresh` being the key that
\* KeyPair::generate would produce and `fail` the step that fails, if any
load_or_create_ca(files, fresh, fail) ==
    LET key_exists == files.caKey # 0
        cert_exists == files.caCert # 0
        created == CaCreated(key_exists, cert_exists)
        ca_key == IF key_exists THEN files.caKey ELSE fresh
        withKey == IF key_exists THEN files ELSE [files EXCEPT !.caKey = fresh]
        keyWrites == IF key_exists THEN <<>> ELSE <<"rootCA-key.pem">>
        failed(f, w) == [ok |-> FALSE, fs |-> f, writes |-> w, created |-> FALSE,
                         ca_key |-> 0, generated |-> f.caKey # files.caKey]
    IN  IF key_exists /\ fail = "read key" THEN failed(files, <<>>)
        ELSE IF ~key_exists /\ fail = "write key" THEN failed(files, <<>>)
        ELSE IF WritesCaCert(created) /\ fail = "write cert"
        THEN failed(withKey, keyWrites)
        ELSE [ok |-> TRUE,
              fs |-> IF WritesCaCert(created)
                     THEN [withKey EXCEPT !.caCert = ca_key] ELSE withKey,
              writes |-> IF WritesCaCert(created)
                         THEN Append(keyWrites, "rootCA.pem") ELSE keyWrites,
              created |-> created,
              ca_key |-> ca_key,
              generated |-> ~key_exists]

\* the steps of load_or_create_ca that can fail on the files `files`
CaFailures(files) ==
    {"none"} \cup (IF files.caKey # 0 THEN {"read key"} ELSE {"write key"})
             \cup (IF WritesCaCert(CaCreated(files.caKey # 0, files.caCert # 0))
                   THEN {"write cert"} ELSE {})

\* issue_domain_cert for a code that writes the certificate and leaves the
\* key file as it was
issue_domain_cert_PemOnly(files, domain, t, ca_key, fresh, fail) ==
    LET withPem == [files EXCEPT !.pem[domain] = Pem(t, fresh, ca_key)]
    IN  IF fail \in {"sign", "write pem"}
        THEN [ok |-> FALSE, fs |-> files, writes |-> <<>>]
        ELSE [ok |-> fail = "none", fs |-> withPem, writes |-> <<CertPath(domain)>>]

\* ca::issue_domain_cert for `domain`: a fresh leaf key, a certificate signed
\* by ca_key, then the two writes, <domain>.pem first
issue_domain_cert(files, domain, t, ca_key, fresh, fail) ==
    LET withPem == [files EXCEPT !.pem[domain] = Pem(t, fresh, ca_key)]
        withBoth == [withPem EXCEPT !.key[domain] = fresh]
    IN  CASE fail = "sign" -> [ok |-> FALSE, fs |-> files, writes |-> <<>>]
          [] fail = "write pem" -> [ok |-> FALSE, fs |-> files, writes |-> <<>>]
          [] fail = "write key" ->
                 [ok |-> FALSE, fs |-> withPem, writes |-> <<CertPath(domain)>>]
          [] OTHER ->
                 [ok |-> TRUE, fs |-> withBoth,
                  writes |-> <<CertPath(domain), KeyPath(domain)>>]

----------------------------------------------------------------------------
(* The TLS certificate resolver: src/src/tls.rs *)

\* Option<T>
None == <<>>

Some(x) == <<x>>

\* Option::unwrap_or_default on an Option<&str>
UnwrapOrDefault(o) == IF o = None THEN <<>> ELSE o[1]

\* rustls::sign::CertifiedKey: the chain read from a .pem file (the leaf key
\* it certifies and the CA key that signed it) and the key read from a .key
\* file
CertifiedKey(pem, key) == [cert |-> pem.leafKey, issuer |-> pem.issuer, key |-> key]

\* the files behind a path of cert_dir
PemAt(files, path) ==
    IF \E d \in DOMAIN files.pem : CertPath(d) = path
    THEN files.pem[CHOOSE d \in DOMAIN files.pem : CertPath(d) = path]
    ELSE NoPem

KeyAt(files, path) ==
    IF \E d \in DOMAIN files.key : KeyPath(d) = path
    THEN files.key[CHOOSE d \in DOMAIN files.key : KeyPath(d) = path]
    ELSE 0

\* tls::load_certified_key: fails when either file cannot be opened
load_certified_key(files, cert_path, key_path) ==
    LET pem == PemAt(files, cert_path)
        key == KeyAt(files, key_path)
    IN  IF ~pem.exists THEN [ok |-> FALSE, key |-> CertifiedKey(NoPem, 0)]
        ELSE IF key = 0 THEN [ok |-> FALSE, key |-> CertifiedKey(NoPem, 0)]
        ELSE [ok |-> TRUE, key |-> CertifiedKey(pem, key)]

\* the orders in which `for (domain, files) in certs` can visit a HashMap
\* with the keys S: std's HashMap is seeded per process and promises none
IterationOrders(S) ==
    {o \in [1..Cardinality(S) -> S] : \A i, j \in DOMAIN o : o[i] = o[j] => i = j}

\* a DomainCertResolver that has not been built
NoResolver == [certs |-> <<>>, default |-> None]

\* the loop of build_server_config over the domains `order`, from position k
RECURSIVE LoadAll(_, _, _, _, _)
LoadAll(certs, files, order, k, acc) ==
    IF k > Len(order) THEN [ok |-> TRUE, resolver |-> acc]
    ELSE LET domain == order[k]
             certified == load_certified_key(files, certs[domain].cert_path,
                                             certs[domain].key_path)
         IN  IF ~certified.ok THEN [ok |-> FALSE, resolver |-> NoResolver]
             ELSE LoadAll(certs, files, order, k + 1,
                          [certs |-> Insert(acc.certs, normalize_domain(domain),
                                            certified.key),
                           default |-> IF acc.default = None
                                       THEN Some(certified.key) ELSE acc.default])

\* tls::build_server_config on the map `certs`, visited in the order `order`
build_server_config(certs, files, order) ==
    IF DOMAIN certs = {} THEN [ok |-> FALSE, resolver |-> NoResolver]
    ELSE LoadAll(certs, files, order, 1, NoResolver)

\* resolve for a code that looks the server name up as the client wrote it
resolve_RawSni(r, server_name) ==
    LET domain == UnwrapOrDefault(server_name)
    IN  IF domain \in DOMAIN r.certs THEN Some(r.certs[domain]) ELSE r.default

\* DomainCertResolver::resolve on a ClientHello with the given server name;
\* the default is held as Some(key), which is what the fallback returns
resolve(r, server_name) ==
    LET sni == UnwrapOrDefault(server_name)
        domain == normalize_domain(sni)
    IN  IF domain \in DOMAIN r.certs THEN Some(r.certs[domain]) ELSE r.default

----------------------------------------------------------------------------
(* Boot: server::run in src/src/server.rs *)

\* the process is not running; pre, keys0, reissue, failed_domain and
\* prev_failed_domain record what the run found and decided; enabled is
\* config.tls.enabled; dns and proxy are the states of the futures run_dns
\* and proxy::run ("off", "start" before the bind, "listening", "failed",
\* "cancelled"), dns_err and proxy_err the errors they returned, bound the
\* listen sockets bound by this run, workers the spawned per-query tasks and
\* conn_tasks the spawned per-connection tasks still running, task_errors
\* the kinds of task that have ended on a failure, signalled whether the
\* interrupt signal has come, ret what server::run returned
IdleBoot ==
    [n |-> 0, pc |-> "off", err |-> "", pre |-> Files(0, 0, <<>>, <<>>), keys0 |-> 0,
     ca_done |-> FALSE, created |-> FALSE, ca_key |-> 0, i |-> 1, certs |-> <<>>,
     reissue |-> <<>>, failed_domain |-> <<>>, prev_failed_domain |-> <<>>,
     writes |-> <<>>, installs |-> 0, enabled |-> TRUE,
     dns |-> "off", proxy |-> "off", dns_err |-> "", proxy_err |-> "",
     bound |-> {}, workers |-> 0, conn_tasks |-> 0, task_errors |-> {},
     signalled |-> FALSE, ret |-> ""]

\* the time between two boots, in seconds
Elapsed == {0, Days(59), Days(61)}

\* ShouldInstall for a code that installs the root CA on every boot
ShouldInstall_Always(ca_created) == TRUE

\* the test `if assets.ca_created` of server::run
ShouldInstall(ca_created) == ca_created

Fail(b, err) == [b EXCEPT !.pc = "failed", !.err = err]

\* RejectsBoot for a code that starts whatever tls.enabled says
RejectsBoot_Never(enabled) == FALSE

\* the test `if !config.tls.enabled` of server::run
RejectsBoot(enabled) == ~enabled

\* spawned tasks that one run keeps in flight
MaxWorkers == 1

\* run_result for a supervisor that joins the two subsystems without
\* failing fast (join! in place of try_join!)
run_result_JoinAll(dns_err, proxy_err, interrupted) ==
    IF interrupted THEN "ok"
    ELSE IF dns_err # "" /\ proxy_err # "" THEN dns_err
    ELSE ""

\* run_result for a supervisor that drops the result of try_join! and
\* returns Ok(()) after it
run_result_IgnoresErrors(dns_err, proxy_err, interrupted) ==
    IF interrupted \/ dns_err # "" \/ proxy_err # "" THEN "ok" ELSE ""

\* the select! of server::run over try_join!(dns_fut, proxy_fut) and
\* signal::ctrl_c(): the error of the subsystem that returned one, "ok" on
\* the signal, "" while neither has happened
run_result(dns_err, proxy_err, interrupted) ==
    IF interrupted THEN "ok"
    ELSE IF dns_err # "" THEN dns_err
    ELSE IF proxy_err # "" THEN proxy_err
    ELSE ""

\* server::run returns r, if r is a result: the futures still pending are
\* dropped, the spawned tasks are left running
Returns(b, r) ==
    IF r = "" THEN b
    ELSE [b EXCEPT !.pc = "stopped", !.ret = r,
                   !.dns = IF @ = "failed" THEN @ ELSE "cancelled",
                   !.proxy = IF @ = "failed" THEN @ ELSE "cancelled"]

\* the process starts, some time after the previous boot: server::run checks
\* tls.enabled
StartRun(enabled, elapsed) ==
    /\ boot.pc = "off"
    /\ boot.n < MaxBoots
    /\ now' = now + elapsed
    /\ LET b == [IdleBoot EXCEPT !.n = boot.n + 1, !.pre = fs, !.keys0 = nkeys,
                                 !.prev_failed_domain = boot.prev_failed_domain,
                                 !.enabled = enabled]
       IN  boot' = IF RejectsBoot(enabled)
                   THEN Fail(b, "tls.enabled must be true")
                   ELSE [b EXCEPT !.pc = "provision"]
    /\ UNCHANGED <<fs, nkeys, trust>>
    /\ UNCHANGED <<dnsvars, proxyvars, fnvars>>

\* provision_certificates up to the loop over the proxies: the two
\* create_dir_all and load_or_create_ca
LoadOrCreateCa(fail) ==
    /\ boot.pc = "provision"
    /\ fail \in CaFailures(fs) \cup {"create dir"}
    /\ LET r == load_or_create_ca(fs, nkeys + 1, fail)
       IN  IF fail = "create dir"
           THEN /\ boot' = Fail(boot, "provision")
                /\ UNCHANGED <<fs, nkeys>>
           ELSE /\ fs' = r.fs
                /\ nkeys' = IF r.generated THEN nkeys + 1 ELSE nkeys
                /\ boot' = IF r.ok
                           THEN [boot EXCEPT !.pc = "domains", !.ca_done = TRUE,
                                             !.created = r.created,
                                             !.ca_key = r.ca_key,
                                             !.writes = @ \o r.writes]
                           ELSE [Fail(boot, "provision") EXCEPT
                                             !.writes = @ \o r.writes]
    /\ UNCHANGED <<trust, now>>
    /\ UNCHANGED <<dnsvars, proxyvars, fnvars>>

\* one turn of `for proxy in proxies` of provision_certificates
ProvisionDomain(fail) ==
    /\ boot.pc = "domains"
    /\ boot.i <= Len(ProxyDomains)
    /\ LET domain == ProxyDomains[boot.i]
           reissue == should_reissue(fs.pem[domain], now, ValidDays, RenewBeforeDays)
           r == issue_domain_cert(fs, domain, now, boot.ca_key, nkeys + 1, fail)
           decided == [boot EXCEPT !.reissue = Insert(@, domain, reissue)]
       IN  IF reissue
           THEN /\ fs' = r.fs
                /\ nkeys' = nkeys + 1
                /\ boot' = IF r.ok
                           THEN [decided EXCEPT
                                    !.i = @ + 1,
                                    !.certs = Insert(@, domain, IssuedCert(domain)),
                                    !.writes = @ \o r.writes]
                           ELSE [Fail(decided, "provision") EXCEPT
                                    !.failed_domain = domain,
                                    !.writes = @ \o r.writes]
           ELSE /\ fail = "none"
                /\ boot' = [decided EXCEPT
                              !.i = @ + 1,
                              !.certs = Insert(@, domain, IssuedCert(domain))]
                /\ UNCHANGED <<fs, nkeys>>
    /\ UNCHANGED <<trust, now>>
    /\ UNCHANGED <<dnsvars, proxyvars, fnvars>>

\* provision_certificates has returned the assets with ca_created set:
\* platform::install_ca_cert, whose error ends the boot
InstallCaCert(ok) ==
    /\ boot.pc = "domains"
    /\ boot.i > Len(ProxyDomains)
    /\ ShouldInstall(boot.created)
    /\ trust' = IF ok THEN trust \cup {fs.caCert} ELSE trust
    /\ boot' = IF ok THEN [boot EXCEPT !.pc = "tls", !.installs = @ + 1]
               ELSE [Fail(boot, "install") EXCEPT !.installs = @ + 1]
    /\ UNCHANGED <<fs, nkeys, now>>
    /\ UNCHANGED <<dnsvars, proxyvars, fnvars>>

\* provision_certificates has returned the assets with ca_created unset:
\* "ca exists, trust install skipped"
SkipInstall ==
    /\ boot.pc = "domains"
    /\ boot.i > Len(ProxyDomains)
    /\ ~ShouldInstall(boot.created)
    /\ boot' = [boot EXCEPT !.pc = "tls"]
    /\ UNCHANGED <<fs, nkeys, trust, now>>
    /\ UNCHANGED <<dnsvars, proxyvars, fnvars>>

\* tls::build_server_config on assets.certs, visited in the order `order`
BuildServerConfig(order) ==
    /\ boot.pc = "tls"
    /\ order \in IterationOrders(DOMAIN boot.certs)
    /\ LET r == build_server_config(boot.certs, fs, order)
       IN  /\ boot' = IF r.ok
                      THEN [boot EXCEPT !.pc = "listening", !.dns = "start",
                                        !.proxy = "start"]
                      ELSE Fail(boot, "tls config")
           /\ resolver' = r.resolver
    /\ UNCHANGED <<fs, nkeys, trust, now>>
    /\ UNCHANGED conns
    /\ UNCHANGED <<dnsvars, fnvars>>

\* one step of run_dns: UdpSocket::bind, then one turn of the receive loop,
\* which spawns the handler of the datagram; an error of either is returned
RunDns(ok) ==
    /\ boot.pc = "listening"
    /\ boot.dns \in {"start", "listening"}
    /\ ok => boot.dns = "start" \/ boot.workers < MaxWorkers
    /\ LET err == IF boot.dns = "start" THEN "failed to bind dns socket"
                  ELSE "dns recv_from failed"
           b == IF ~ok THEN [boot EXCEPT !.dns = "failed", !.dns_err = err]
                ELSE IF boot.dns = "start"
                THEN [boot EXCEPT !.dns = "listening", !.bound = @ \cup {"udp"}]
                ELSE [boot EXCEPT !.workers = @ + 1]
       IN  boot' = Returns(b, run_result(b.dns_err, b.proxy_err, FALSE))
    /\ UNCHANGED <<fs, nkeys, trust, now>>
    /\ UNCHANGED <<dnsvars, proxyvars, fnvars>>

\* one step of proxy::run: the client and TcpListener::bind, then one turn
\* of the accept loop, which spawns the task of the connection
RunProxy(outcome) ==
    /\ boot.pc = "listening"
    /\ boot.proxy \in {"start", "listening"}
    /\ outcome = "client error" => boot.proxy = "start"
    /\ outcome = "ok" => boot.proxy = "start" \/ boot.conn_tasks < MaxWorkers
    /\ LET err == IF outcome = "client error"
                  THEN "failed to build proxy http client"
                  ELSE IF boot.proxy = "start" THEN "failed to bind proxy socket"
                  ELSE "failed to accept proxy tcp connection"
           b == IF outcome # "ok"
                THEN [boot EXCEPT !.proxy = "failed", !.proxy_err = err]
                ELSE IF boot.proxy = "start"
                THEN [boot EXCEPT !.proxy = "listening", !.bound = @ \cup {"tcp"}]
                ELSE [boot EXCEPT !.conn_tasks = @ + 1]
       IN  boot' = Returns(b, run_result(b.dns_err, b.proxy_err, FALSE))
    /\ UNCHANGED <<fs, nkeys, trust, now>>
    /\ UNCHANGED <<dnsvars, proxyvars, fnvars>>

\* the interrupt signal comes and signal::ctrl_c() completes
Interrupt ==
    /\ boot.pc = "listening"
    /\ boot' = Returns([boot EXCEPT !.signalled = TRUE],
                       run_result(boot.dns_err, boot.proxy_err, TRUE))
    /\ UNCHANGED <<fs, nkeys, trust, now>>
    /\ UNCHANGED <<dnsvars, proxyvars, fnvars>>

\* TaskEnded for a code that hands the failure of a task to the loop that
\* spawned it, which returns it
TaskEnded_Propagates(b, kind, outcome) ==
    IF outcome = "ok" THEN b
    ELSE Returns([b EXCEPT !.task_errors = @ \cup {kind}], outcome)

\* what the end of a spawned task leaves of the run: its failure is logged
\* inside the task, whose JoinHandle was dropped, and nothing else sees it
TaskEnded(b, kind, outcome) ==
    IF outcome = "ok" THEN b
    ELSE [b EXCEPT !.task_errors = @ \cup {kind}]

\* a task spawned by run_dns runs to its end: the reply was sent, or
\* handle_dns_packet returned an error, or send_to failed
WorkerDone(outcome) ==
    /\ boot.pc \in {"listening", "stopped"}
    /\ boot.workers > 0
    /\ boot' = TaskEnded([boot EXCEPT !.workers = @ - 1], "dns", outcome)
    /\ UNCHANGED <<fs, nkeys, trust, now>>
    /\ UNCHANGED <<dnsvars, proxyvars, fnvars>>

\* a task spawned by proxy::run runs to its end: the connection was served
\* and closed, or acceptor.accept failed, or serve_connection failed
ConnDone(outcome) ==
    /\ boot.pc \in {"listening", "stopped"}
    /\ boot.conn_tasks > 0
    /\ boot' = TaskEnded([boot EXCEPT !.conn_tasks = @ - 1], "conn", outcome)
    /\ UNCHANGED <<fs, nkeys, trust, now>>
    /\ UNCHANGED <<dnsvars, proxyvars, fnvars>>

\* the process ends after server::run has returned; the runtime drops the
\* tasks still running
Exit ==
    /\ boot.pc \in {"failed", "stopped"}
    /\ boot' = [IdleBoot EXCEPT !.n = boot.n,
                                !.prev_failed_domain = boot.failed_domain]
    /\ resolver' = NoResolver
    /\ UNCHANGED <<fs, nkeys, trust, now>>
    /\ UNCHANGED conns
    /\ UNCHANGED <<dnsvars, fnvars>>

\* the leaf files a previous run can have left for a domain: none, or a
\* certificate and key issued at time 0 under CA key 1
OldLeafKey(d) == IF d = ProxyDomains[1] THEN 2 ELSE 3

\* no connection, no function under test
InitNoProxy ==
    /\ resolver = NoResolver
    /\ conns = <<>>

InitNoFn ==
    /\ args = <<>>
    /\ call = <<>>

InitBoot ==
    /\ \E caKey \in {0, 1}, caCert \in {0, 1}, have \in SUBSET ProxyDomainSet :
          fs = Files(caKey, caCert,
                     [d \in ProxyDomainSet |->
                         IF d \in have THEN Pem(0, OldLeafKey(d), 1) ELSE NoPem],
                     [d \in ProxyDomainSet |->
                         IF d \in have THEN OldLeafKey(d) ELSE 0])
    /\ boot = IdleBoot
    /\ nkeys = 3
    /\ trust \in {{}, {1}}
    /\ now = 0
    /\ upstream = <<>>
    /\ ttl = 0
    /\ tasks = <<>>
    /\ ntasks = 0
    /\ buf = <<>>
    /\ InitNoProxy
    /\ InitNoFn

NextBoot ==
    \/ \E e \in BOOLEAN, d \in Elapsed : StartRun(e, d)
    \/ \E f \in {"none", "create dir", "read key", "write key", "write cert"} :
          LoadOrCreateCa(f)
    \/ \E f \in {"none", "sign", "write pem", "write key"} : ProvisionDomain(f)
    \/ \E ok \in BOOLEAN : InstallCaCert(ok)
    \/ SkipInstall
    \/ \E o \in IterationOrders(ProxyDomainSet) : BuildServerConfig(o)
    \/ \E ok \in BOOLEAN : RunDns(ok)
    \/ \E o \in {"ok", "client error", "error"} : RunProxy(o)
    \/ Interrupt
    \/ \E o \in {"ok", "request handling failed", "failed to send response"} :
          WorkerDone(o)
    \/ \E o \in {"ok", "tls handshake failed", "connection handling failed"} :
          ConnDone(o)
    \/ Exit

SpecBoot == InitBoot /\ [][NextBoot]_vars

----------------------------------------------------------------------------
(* Pure functions of the HTTPS proxy: src/src/proxy.rs *)

\* str::find and str::rfind of a character: the position of the first and
\* of the last occurrence, 0 when absent
Find(s, c) ==
    IF \E k \in DOMAIN s : s[k] = c
    THEN CHOOSE k \in DOMAIN s : s[k] = c /\ \A j \in 1..(k - 1) : s[j] # c
    ELSE 0

RFind(s, c) ==
    IF \E k \in DOMAIN s : s[k] = c
    THEN CHOOSE k \in DOMAIN s : s[k] = c /\ \A j \in (k + 1)..Len(s) : s[j] # c
    ELSE 0

\* str::trim_end_matches('/'): removes every trailing slash
RECURSIVE TrimEndSlashes(_)
TrimEndSlashes(s) ==
    IF s # <<>> /\ s[Len(s)] = "/"
    THEN TrimEndSlashes(SubSeq(s, 1, Len(s) - 1)) ELSE s

\* proxy::normalize_host
normalize_host(raw) ==
    LET host == TrimEndDots(Trim(raw))
        end == Find(host, "]")
        colon == RFind(host, ":")
        name == SubSeq(host, 1, colon - 1)
    IN  IF host = <<>> THEN <<>>
        ELSE IF Head(host) = "[" /\ end # 0
        THEN ToAsciiLowercase(SubSeq(host, 2, end - 1))
        ELSE IF colon # 0 /\ name # <<>> /\ Find(name, ":") = 0
        THEN ToAsciiLowercase(name)
        ELSE ToAsciiLowercase(host)

\* http::uri::PathAndQuery::as_str: an empty path reads as "/"
PathAndQueryAsStr(data) == IF data = <<>> THEN <<"/">> ELSE data

\* BaseOfTarget for a code that keeps the base as configured
BaseOfTarget_Untrimmed(base_url) == base_url

\* base_url.trim_end_matches('/')
BaseOfTarget(base_url) == TrimEndSlashes(base_url)

\* proxy::build_target_url; uri.path_and_query() is an Option
build_target_url(base_url, uri) ==
    LET path_and_query == IF uri.path_and_query = None THEN <<"/">>
                          ELSE PathAndQueryAsStr(uri.path_and_query[1])
    IN  BaseOfTarget(base_url) \o path_and_query

\* is_hop_by_hop for a code whose list lacks "te"
is_hop_by_hop_NoTe(name) ==
    name \in {"connection", "proxy-connection", "keep-alive", "trailer",
              "upgrade", "transfer-encoding"}

\* proxy::is_hop_by_hop on a HeaderName (lower case by construction)
is_hop_by_hop(name) ==
    name \in {"connection", "proxy-connection", "keep-alive", "te", "trailer",
              "upgrade", "transfer-encoding"}

----------------------------------------------------------------------------
(* The HTTPS proxy as a system: proxy::run, proxy_handler and forward *)

\* connections accepted by proxy::run in one run
MaxConns == 1
\* requests served on one connection
MaxRequests == 1

\* ProxyConfig.upstream_host_port of the proxy of a domain
UpstreamOf(domain) ==
    IF domain = ProxyDomains[1] THEN <<"h", ":", "1">> ELSE <<"h", ":", "2">>

\* ProxyConfig::base_url
base_url(upstream_host_port) ==
    <<"h", "t", "t", "p", ":", "/", "/">> \o upstream_host_port

\* the routes map that proxy::run builds from the proxies
Routes ==
    [d \in ProxyDomainSet |->
        [domain |-> d, upstream_host_port |-> UpstreamOf(d),
         base_url |-> base_url(UpstreamOf(d))]]

\* the files a successful provisioning leaves for the proxy domains
ProvisionedFiles ==
    Files(1, 1, [d \in ProxyDomainSet |-> Pem(0, OldLeafKey(d), 1)],
          [d \in ProxyDomainSet |-> OldLeafKey(d)])

\* the server names of the ClientHellos: none, a configured domain in
\* another spelling, a configured domain, an unknown domain
ServerNames ==
    {None, Some(<<"A", ".", "D", ".">>), Some(<<"b", ".", "d">>),
     Some(<<"c", ".", "d">>)}

\* a header of a request or of a response: HeaderName (lower case) and value
Header(name, value) == [name |-> name, value |-> value]

\* the requests that hyper parses from the connections and the router hands
\* to proxy_handler: the routes "/" and "/{*path}" take every origin-form
\* target
HttpRequest(method, pq, headers, body) ==
    [method |-> method, uri |-> [path_and_query |-> pq], headers |-> headers,
     body |-> body]

ClientRequests ==
    { HttpRequest("GET", Some(<<"/", "a", "?", "b">>),
          <<Header("host", <<"a", ".", "d">>),
            Header("connection", <<"k">>),
            Header("x-a", <<"1">>),
            Header("te", <<"t">>),
            Header("x-a", <<"2">>),
            Header("keep-alive", <<"5">>)>>, "")
    , HttpRequest("POST", Some(<<"/">>),
          <<Header("upgrade", <<"w">>),
            Header("host", <<"B", ".", "D", ":", "4", "4", "3">>),
            Header("transfer-encoding", <<"c">>),
            Header("content-type", <<"j">>),
            Header("proxy-connection", <<"k">>),
            Header("trailer", <<"x">>)>>, "body")
    , HttpRequest("GET", Some(<<"/">>),
          <<Header("host", <<"a", ".", "d", ".">>),
            Header("host", <<"b", ".", "d">>),
            Header("accept", <<"*">>)>>, "")
    , HttpRequest("GET", Some(<<"/">>),
          <<Header("host", <<"c", ".", "d">>), Header("x-a", <<"1">>)>>, "")
    , HttpRequest("GET", Some(<<"/", "a", "/">>), <<Header("x-a", <<"1">>)>>, "")
    , HttpRequest("GET", Some(<<"/">>),
          <<Header("host", <<>>), Header("te", <<"t">>)>>, "") }

\* what an upstream answers: status and headers
UpstreamResponses ==
    { [status |-> 200,
       headers |-> <<Header("content-type", <<"h">>),
                     Header("connection", <<"c">>),
                     Header("set-cookie", <<"1">>),
                     Header("keep-alive", <<"5">>),
                     Header("set-cookie", <<"2">>)>>]
    , [status |-> 404,
       headers |-> <<Header("transfer-encoding", <<"c">>),
                     Header("te", <<"t">>),
                     Header("host", <<"u">>)>>]
    , [status |-> 502,
       headers |-> <<Header("proxy-connection", <<"k">>),
                     Header("trailer", <<"x">>),
                     Header("upgrade", <<"w">>)>>] }

\* no upstream request, no response
NoUpstreamRequest ==
    [to |-> <<>>, method |-> "", url |-> <<>>, headers |-> <<>>, body |-> ""]

NoResponse == [status |-> 0, headers |-> <<>>, body |-> ""]

\* (StatusCode::BAD_GATEWAY, text).into_response()
BadGateway(text) == [status |-> 502, headers |-> <<>>, body |-> text]

\* a connection task: the server name of its ClientHello, the certificate
\* the resolver gave it, the request in hand, the route chosen, the upstream
\* request built, the upstreams contacted for this request, the upstream's
\* response, the result of forward ("" while there is none, "ok", or the
\* context of its error) and the response given to hyper
NewConn(server_name) ==
    [pc |-> "handshake", server_name |-> server_name, cert |-> None, nreq |-> 0,
     req |-> HttpRequest("", None, <<>>, ""), route |-> None, upstream_req |-> NoUpstreamRequest,
     contacted |-> <<>>, upstream_resp |-> NoResponse, fwd |-> "",
     resp |-> NoResponse, errlog |-> <<>>]

\* req.headers().get("host").and_then(|v| v.to_str().ok()).unwrap_or_default()
IncomingHost(req) ==
    LET hosts == SelectSeq(req.headers, LAMBDA h : h.name = "host")
    IN  IF hosts = <<>> THEN <<>> ELSE hosts[1].value

\* RouteKey for a code that looks the Host value up as the client wrote it
RouteKey_RawHost(req) == IncomingHost(req)

\* the key of the routes lookup of proxy_handler
RouteKey(req) == normalize_host(IncomingHost(req))

\* the loop of forward over the request headers
UpstreamHeaders(headers) ==
    SelectSeq(headers, LAMBDA h : h.name # "host" /\ ~is_hop_by_hop(h.name))

\* the loop of forward over the upstream response headers
RelayedHeaders(headers) ==
    SelectSeq(headers, LAMBDA h : ~is_hop_by_hop(h.name))

\* Respond for a handler that answers 502 for every upstream error status
Respond_ErrorStatusAsBadGateway(fwd, resp) ==
    IF fwd = "ok" /\ resp.status < 400 THEN resp
    ELSE BadGateway("proxy request failed")

\* the match of proxy_handler on the result of forward
Respond(fwd, resp) ==
    IF fwd = "ok" THEN resp ELSE BadGateway("proxy request failed")

\* listener.accept and tokio::spawn
Accept(server_name) ==
    /\ Len(conns) < MaxConns
    /\ conns' = Append(conns, NewConn(server_name))
    /\ UNCHANGED resolver
    /\ UNCHANGED <<dnsvars, bootvars, fnvars>>

\* acceptor.accept(stream): rustls asks the resolver for the certificate;
\* a failed handshake is logged and ends the task
TlsHandshake(c, ok) ==
    /\ c \in DOMAIN conns
    /\ conns[c].pc = "handshake"
    /\ conns' = [conns EXCEPT ![c] =
          IF ok
          THEN [@ EXCEPT !.pc = "serving",
                         !.cert = resolve(resolver, conns[c].server_name)]
          ELSE [@ EXCEPT !.pc = "closed",
                         !.cert = resolve(resolver, conns[c].server_name),
                         !.errlog = Append(@, "tls handshake failed")]]
    /\ UNCHANGED resolver
    /\ UNCHANGED <<dnsvars, bootvars, fnvars>>

\* proxy_handler up to the call of forward
ProxyHandler(c, req) ==
    /\ c \in DOMAIN conns
    /\ conns[c].pc = "serving"
    /\ conns[c].nreq < MaxRequests
    /\ LET normalized_host == RouteKey(req)
           fresh == [conns[c] EXCEPT !.nreq = @ + 1, !.req = req, !.route = None,
                                     !.upstream_req = NoUpstreamRequest,
                                     !.contacted = <<>>,
                                     !.upstream_resp = NoResponse,
                                     !.fwd = "",
                                     !.resp = NoResponse]
       IN  conns' = [conns EXCEPT ![c] =
              IF normalized_host \in DOMAIN Routes
              THEN [fresh EXCEPT !.pc = "forward",
                                 !.route = Some(Routes[normalized_host])]
              ELSE [fresh EXCEPT
                       !.resp = BadGateway("no upstream configured for host"),
                       !.errlog = Append(@, "no upstream configured for host")]]
    /\ UNCHANGED resolver
    /\ UNCHANGED <<dnsvars, bootvars, fnvars>>

\* forward up to upstream_req.send(): the target, the body, the headers
SendUpstream(c, outcome) ==
    /\ c \in DOMAIN conns
    /\ conns[c].pc = "forward"
    /\ LET conn == conns[c]
           route == conn.route[1]
           target == build_target_url(route.base_url, conn.req.uri)
           upstream_req == [to |-> route.upstream_host_port,
                            method |-> conn.req.method,
                            url |-> target,
                            headers |-> UpstreamHeaders(conn.req.headers),
                            body |-> conn.req.body]
           failed(err) == [conn EXCEPT !.pc = "serving",
                                       !.fwd = err,
                                       !.resp = Respond(err, NoResponse),
                                       !.errlog = Append(@, "upstream request failed")]
       IN  conns' = [conns EXCEPT ![c] =
              CASE outcome = "body error" -> failed("failed to read request body")
                [] outcome = "send error" ->
                      [failed("failed to send upstream request") EXCEPT
                          !.upstream_req = upstream_req,
                          !.contacted = Append(@, route.upstream_host_port)]
                [] OTHER ->
                      [conn EXCEPT !.pc = "upstream",
                                   !.upstream_req = upstream_req,
                                   !.contacted = Append(@, route.upstream_host_port)]]
    /\ UNCHANGED resolver
    /\ UNCHANGED <<dnsvars, bootvars, fnvars>>

\* forward from the upstream's response on, and the match of proxy_handler
Relay(c, upstream_resp, ok) ==
    /\ c \in DOMAIN conns
    /\ conns[c].pc = "upstream"
    /\ conns' = [conns EXCEPT ![c] =
          IF ok
          THEN [@ EXCEPT !.pc = "serving",
                         !.upstream_resp = upstream_resp,
                         !.fwd = "ok",
                         !.resp = Respond("ok",
                             [status |-> upstream_resp.status,
                              headers |-> RelayedHeaders(upstream_resp.headers),
                              body |-> "upstream body"])]
          ELSE [@ EXCEPT !.pc = "serving",
                         !.upstream_resp = upstream_resp,
                         !.fwd = "failed to read upstream response body",
                         !.resp = Respond("failed to read upstream response body",
                                          NoResponse),
                         !.errlog = Append(@, "upstream request failed")]]
    /\ UNCHANGED resolver
    /\ UNCHANGED <<dnsvars, bootvars, fnvars>>

\* serve_connection returns: the client has closed, or the connection
\* failed; the task ends and what it held of its last request is dropped
Close(c, ok) ==
    /\ c \in DOMAIN conns
    /\ conns[c].pc = "serving"
    /\ conns' = [conns EXCEPT ![c] =
          [NewConn(conns[c].server_name) EXCEPT
              !.pc = "closed",
              !.cert = conns[c].cert,
              !.errlog = IF ok THEN conns[c].errlog
                         ELSE Append(conns[c].errlog, "connection handling failed")]]
    /\ UNCHANGED resolver
    /\ UNCHANGED <<dnsvars, bootvars, fnvars>>

InitProxy ==
    /\ resolver \in {build_server_config([d \in ProxyDomainSet |-> IssuedCert(d)],
                                          ProvisionedFiles, o).resolver :
                        o \in IterationOrders(ProxyDomainSet)}
    /\ conns = <<>>
    /\ upstream = <<>>
    /\ ttl = 0
    /\ tasks = <<>>
    /\ ntasks = 0
    /\ buf = <<>>
    /\ fs = <<>>
    /\ boot = IdleBoot
    /\ nkeys = 0
    /\ trust = {}
    /\ now = 0
    /\ InitNoFn

NextProxy ==
    \/ \E n \in ServerNames : Accept(n)
    \/ \E c \in 1..MaxConns, ok \in BOOLEAN : TlsHandshake(c, ok)
    \/ \E c \in 1..MaxConns, r \in ClientRequests : ProxyHandler(c, r)
    \/ \E c \in 1..MaxConns, o \in {"ok", "body error", "send error"} :
          SendUpstream(c, o)
    \/ \E c \in 1..MaxConns, u \in UpstreamResponses, ok \in BOOLEAN : Relay(c, u, ok)
    \/ \E c \in 1..MaxConns, ok \in BOOLEAN : Close(c, ok)

SpecProxy == InitProxy /\ [][NextProxy]_vars

----------------------------------------------------------------------------
(* Configuration loading: AppConfig::from_toml_str in src/src/config.rs, *)
(* from the RawConfig that toml::from_str has parsed                      *)

\* rows of one [[record]] or [[proxy]] table
MaxRows == 2

\* str::parse::<SocketAddr> on the addresses the configurations use
parse_socket_addr(s) ==
    CASE s = "127.0.0.1:53" -> Some(SockAddr("127.0.0.1", 53))
      [] s = "1.1.1.1:53" -> Some(SockAddr("1.1.1.1", 53))
      [] s = "127.0.0.1:443" -> Some(SockAddr("127.0.0.1", 443))
      [] s = "127.0.0.1:8443" -> Some(SockAddr("127.0.0.1", 8443))
      [] OTHER -> None

\* tls_error for a code that compares with > in place of >=
tls_error_Strict(valid_days, renew_before_days) ==
    IF valid_days = 0 THEN "tls.valid_days must be greater than 0"
    ELSE IF renew_before_days > valid_days
    THEN "tls.renew_before_days must be smaller than tls.valid_days"
    ELSE ""

\* the two checks of the renewal window; "" when both pass
tls_error(valid_days, renew_before_days) ==
    IF valid_days = 0 THEN "tls.valid_days must be greater than 0"
    ELSE IF renew_before_days >= valid_days
    THEN "tls.renew_before_days must be smaller than tls.valid_days"
    ELSE ""

\* Duplicate for a code that drops the result of the insert
Duplicate_Never(domain_seen, domain) == FALSE

\* !domain_seen.insert(domain.clone())
Duplicate(domain_seen, domain) == domain \in domain_seen

\* listen_error for a code that keeps no listen_seen
listen_error_Never(listen_seen, listen) == ""

\* the match on listen_seen; "" when the row's listen passes
listen_error(listen_seen, listen) ==
    IF listen_seen = None \/ listen_seen = Some(listen) THEN ""
    ELSE "all proxy.listen values must be identical in this phase"

\* row.upstream.contains("://")
ContainsScheme(s) ==
    \E k \in 1..(Len(s) - 2) : s[k] = ":" /\ s[k + 1] = "/" /\ s[k + 2] = "/"

\* validate_upstream_host_port for a code without the test of the port
validate_upstream_host_port_NoPort(input) ==
    IF input = <<>> \/ \E k \in DOMAIN input : input[k] \in {"/", "?", "#", " "}
    THEN "invalid proxy.upstream host:port"
    ELSE IF input[1] = ":" THEN "proxy.upstream host is empty"
    ELSE ""

\* validate_upstream_host_port: http's Authority parser refuses the empty
\* string, a character that is not one of an authority ('/', '?', '#' and
\* the space among them) and more than one ':' outside brackets; host() is
\* what stands before the ':', port_u16() the u16 after the last ':'.
\* "" when the value passes
validate_upstream_host_port(input) ==
    LET colons == {k \in DOMAIN input : input[k] = ":"}
        parsed == /\ input # <<>>
                  /\ \A k \in DOMAIN input : input[k] \notin {"/", "?", "#", " "}
                  /\ Cardinality(colons) <= 1
        colon == RFind(input, ":")
        host == IF colons = {} THEN input ELSE SubSeq(input, 1, colon - 1)
        digits == IF colons = {} THEN <<>>
                  ELSE SubSeq(input, colon + 1, Len(input))
        Digit(c) == CASE c = "0" -> 0 [] c = "1" -> 1 [] c = "2" -> 2
                      [] c = "3" -> 3 [] c = "4" -> 4 [] c = "5" -> 5
                      [] c = "6" -> 6 [] c = "7" -> 7 [] c = "8" -> 8
                      [] c = "9" -> 9 [] OTHER -> -1
        RECURSIVE Value(_)
        Value(d) == IF d = <<>> THEN 0
                    ELSE 10 * Value(SubSeq(d, 1, Len(d) - 1)) + Digit(d[Len(d)])
        port_u16 == IF /\ digits # <<>>
                       /\ Len(digits) <= 5
                       /\ \A k \in DOMAIN digits : Digit(digits[k]) >= 0
                       /\ Value(digits) <= 65535
                    THEN Some(Value(digits)) ELSE None
    IN  IF ~parsed THEN "invalid proxy.upstream host:port"
        ELSE IF host = <<>> THEN "proxy.upstream host is empty"
        ELSE IF port_u16 = None THEN "proxy.upstream must include port"
        ELSE ""

\* from_toml_str after toml::from_str: the checks in the order of the code,
\* each ending the load with its error; the AppConfig when all pass. The
\* directories (ca_dir, cert_dir), which no check looks at, are left out.
from_toml_str(raw) ==
    LET First(errs) ==
            LET bad == SelectSeq(errs, LAMBDA e : e # "")
            IN  IF bad = <<>> THEN "" ELSE bad[1]
        UnwrapOr(o, d) == IF o = None THEN d ELSE o[1]
        ip(s) == CASE s = "127.0.0.1" -> 4 [] s = "127.0.0.2" -> 4
                   [] s = "::1" -> 6 [] OTHER -> 0
        tls_valid_days == UnwrapOr(raw.tls.valid_days, ValidDays)
        tls_renew_before_days == UnwrapOr(raw.tls.renew_before_days, RenewBeforeDays)
        ca_common_name ==
            UnwrapOr(raw.tls.ca_common_name, <<"s", "p", "t", "t", "h">>)
        a_values(row) == UnwrapOr(row.a, <<>>)
        aaaa_values(row) == UnwrapOr(row.aaaa, <<>>)
        record_error(k) ==
            LET row == raw.record[k]
                domain == normalize_domain(row.domain)
            IN  IF domain = <<>> THEN "record.domain contains empty value"
                ELSE IF a_values(row) = <<>> /\ aaaa_values(row) = <<>>
                THEN "record requires A and/or AAAA values"
                ELSE First(
                    [j \in DOMAIN a_values(row) |->
                        IF ip(a_values(row)[j]) = 0 THEN "invalid A address in record"
                        ELSE IF ip(a_values(row)[j]) = 6 THEN "A must be IPv4 in record"
                        ELSE ""]
                    \o
                    [j \in DOMAIN aaaa_values(row) |->
                        IF ip(aaaa_values(row)[j]) = 0
                        THEN "invalid AAAA address in record"
                        ELSE IF ip(aaaa_values(row)[j]) = 4
                        THEN "AAAA must be IPv6 in record"
                        ELSE ""]
                    \o
                    <<IF \E j \in 1..(k - 1) :
                            normalize_domain(raw.record[j].domain) = domain
                      THEN "duplicate record.domain" ELSE "">>)
        proxy_error(k) ==
            LET row == raw.proxy[k]
                domain == normalize_domain(row.domain)
                domain_seen == {normalize_domain(raw.proxy[j].domain) : j \in 1..(k - 1)}
                listen == parse_socket_addr(row.listen)
                listen_seen == IF k = 1 THEN None
                               ELSE parse_socket_addr(raw.proxy[1].listen)
            IN  IF domain = <<>> THEN "proxy.domain contains empty value"
                ELSE IF Duplicate(domain_seen, domain) THEN "duplicate proxy.domain"
                ELSE IF listen = None THEN "invalid proxy.listen address"
                ELSE IF listen_error(listen_seen, listen[1]) # ""
                THEN listen_error(listen_seen, listen[1])
                ELSE IF ContainsScheme(row.upstream)
                THEN "proxy.upstream must be host:port (no scheme)"
                ELSE validate_upstream_host_port(row.upstream)
        err == First(
            << IF parse_socket_addr(raw.dns.listen) = None
               THEN "invalid dns.listen address" ELSE "",
               IF raw.dns.upstream = <<>>
               THEN "dns.upstream must have at least one dns server" ELSE "" >>
            \o [k \in DOMAIN raw.dns.upstream |->
                   IF parse_socket_addr(raw.dns.upstream[k]) = None
                   THEN "invalid dns.upstream address" ELSE ""]
            \o << tls_error(tls_valid_days, tls_renew_before_days),
                  IF Trim(ca_common_name) = <<>>
                  THEN "tls.ca_common_name must not be empty" ELSE "",
                  IF raw.record = <<>>
                  THEN "at least one [[record]] is required" ELSE "" >>
            \o [k \in DOMAIN raw.record |-> record_error(k)]
            \o << IF raw.proxy = <<>>
                  THEN "at least one [[proxy]] is required" ELSE "" >>
            \o [k \in DOMAIN raw.proxy |-> proxy_error(k)]
            \o << IF raw.dns.log_level \in {None, Some("error"), Some("info"),
                                            Some("debug")}
                  THEN "" ELSE "invalid log_level value" >>)
    IN  IF err # "" THEN [ok |-> FALSE, err |-> err, config |-> None]
        ELSE [ok |-> TRUE, err |-> "", config |-> Some(
                [dns |-> [listen |-> parse_socket_addr(raw.dns.listen)[1],
                          upstream |-> [k \in DOMAIN raw.dns.upstream |->
                                          parse_socket_addr(raw.dns.upstream[k])[1]],
                          ttl_seconds |-> UnwrapOr(raw.dns.ttl_seconds, DefaultTtl)],
                 tls |-> [enabled |-> UnwrapOr(raw.tls.enabled, TRUE),
                          ca_common_name |-> ca_common_name,
                          valid_days |-> tls_valid_days,
                          renew_before_days |-> tls_renew_before_days],
                 records |->
                    [d \in {normalize_domain(raw.record[k].domain) :
                               k \in DOMAIN raw.record} |->
                        LET row == raw.record[CHOOSE k \in DOMAIN raw.record :
                                        normalize_domain(raw.record[k].domain) = d]
                        IN  [ipv4 |-> a_values(row), ipv6 |-> aaaa_values(row)]],
                 proxies |-> [k \in DOMAIN raw.proxy |->
                                [domain |-> normalize_domain(raw.proxy[k].domain),
                                 listen |-> parse_socket_addr(raw.proxy[k].listen)[1],
                                 upstream_host_port |-> raw.proxy[k].upstream]],
                 log_level |-> UnwrapOr(raw.dns.log_level, "info")])]

\* the sequences of at most n rows
RECURSIVE Rows(_, _)
Rows(rows, n) ==
    IF n = 0 THEN {<<>>}
    ELSE LET shorter == Rows(rows, n - 1)
         IN  shorter \cup {Append(s, r) : s \in shorter, r \in rows}

\* the configurations given to from_toml_str: the [dns] and [tls] tables
\* around their checks, the [[record]] tables, and the [[proxy]] tables
\* under a [dns] and a [tls] table that pass or fail
RawConfigs ==
    LET Dns(listen, up, ttl_seconds, log_level) ==
            [listen |-> listen, upstream |-> up, ttl_seconds |-> ttl_seconds,
             log_level |-> log_level]
        Tls(enabled, name, valid_days, renew_before_days) ==
            [enabled |-> enabled, ca_common_name |-> name,
             valid_days |-> valid_days, renew_before_days |-> renew_before_days]
        Record(domain, a, aaaa) == [domain |-> domain, a |-> a, aaaa |-> aaaa]
        Proxy(domain, listen, up) ==
            [domain |-> domain, listen |-> listen, upstream |-> up]
        BaseDns == Dns("127.0.0.1:53", <<"1.1.1.1:53">>, None, None)
        NoUpstream == Dns("127.0.0.1:53", <<>>, None, None)
        BaseTls == Tls(None, None, None, None)
        BadTls == Tls(None, None, Some(30), None)
        BaseRecords == <<Record(<<"a", ".", "d">>, Some(<<"127.0.0.1">>), None)>>
        BaseProxies ==
            <<Proxy(<<"a", ".", "d">>, "127.0.0.1:443", <<"h", ":", "1">>)>>
        DnsSet ==
            {BaseDns, NoUpstream,
             Dns("127.0.0.1:53", <<"1.1.1.1:53", "1.1.1.1">>, None, None),
             Dns("127.0.0.1", <<"1.1.1.1:53">>, None, None),
             Dns("127.0.0.1:53", <<"1.1.1.1:53">>, None, Some("warn")),
             Dns("127.0.0.1:53", <<"1.1.1.1:53", "127.0.0.1:53">>, Some(1),
                 Some("debug"))}
        TlsSet ==
            {Tls(None, None, v, r) :
                v \in {None, Some(0), Some(1), Some(30), Some(31)},
                r \in {None, Some(0), Some(30), Some(90)}}
            \cup {Tls(Some(FALSE), Some(<<"c", "a">>), None, None),
                  Tls(Some(TRUE), Some(<<" ">>), None, None)}
        RecordSet ==
            {Record(<<"a", ".", "d">>, Some(<<"127.0.0.1">>), None),
             Record(<<"A", ".", "D", ".">>, None, Some(<<"::1">>)),
             Record(<<"b", ".", "d">>, Some(<<"127.0.0.1", "127.0.0.2">>),
                    Some(<<"::1">>)),
             Record(<<"b", ".", "d">>, Some(<<>>), None),
             Record(<<" ", ".">>, Some(<<"127.0.0.1">>), None),
             Record(<<"a", " ", ".">>, Some(<<"127.0.0.1">>), None),
             Record(<<"c", ".", "d">>, Some(<<"::1">>), Some(<<"x">>))}
        ProxySet ==
            {Proxy(d, "127.0.0.1:443", <<"h", ":", "1">>) :
                d \in {<<"a", ".", "d">>, <<"A", ".", "D", ".">>,
                       <<"b", ".", "d">>, <<".">>, <<"a", " ", ".">>}}
            \cup {Proxy(<<"b", ".", "d">>, l, <<"h", ":", "2">>) :
                     l \in {"127.0.0.1:8443", "127.0.0.1"}}
            \cup {Proxy(<<"c", ".", "d">>, "127.0.0.1:443", u) :
                     u \in {<<"h">>, <<":", "1">>, <<>>, <<"h", ":">>,
                            <<"h", ":", "/", "/", "h", ":", "1">>}}
    IN  {[dns |-> d, tls |-> t, record |-> BaseRecords, proxy |-> BaseProxies] :
            d \in DnsSet, t \in TlsSet}
        \cup
        {[dns |-> BaseDns, tls |-> BaseTls, record |-> r, proxy |-> BaseProxies] :
            r \in Rows(RecordSet, MaxRows)}
        \cup
        {[dns |-> d, tls |-> t, record |-> BaseRecords, proxy |-> p] :
            d \in {BaseDns, NoUpstream}, t \in {BaseTls, BadTls},
            p \in Rows(ProxySet, MaxRows)}

----------------------------------------------------------------------------
(* The functions taken alone: arguments drawn by Init, one call per action *)

\* the longest string given to normalize_domain
MaxLen == 3

\* the strings of at most n characters over the alphabet
RECURSIVE Strings(_, _)
Strings(alphabet, n) ==
    IF n = 0 THEN {<<>>}
    ELSE LET shorter == Strings(alphabet, n - 1)
         IN  shorter \cup {Append(s, c) : s \in shorter, c \in alphabet}

\* the clock value at which should_reissue is called, and the modification
\* times it finds: around the threshold of 90/30, around that of 1/0, and
\* in the future
CallTime == Days(100)

Mtimes ==
    {CallTime - Days(61), CallTime - Days(60), CallTime - Days(60) + 1,
     CallTime - Days(59), CallTime - Days(1), CallTime - Days(1) + 1,
     CallTime, CallTime + 1}

\* arguments of should_reissue
ReissueInputs ==
    {[fn |-> "should_reissue", file |-> f, now |-> CallTime,
      valid_days |-> w[1], renew_before_days |-> w[2]] :
        f \in {NoPem} \cup {[Pem(m, 2, 1) EXCEPT !.mtime_ok = ok] :
                               m \in Mtimes, ok \in BOOLEAN},
        w \in {<<90, 30>>, <<30, 30>>, <<30, 90>>, <<1, 0>>, <<2, 1>>,
               <<24855, 0>>}}

\* a Host header value written from a name in one of the spellings
HostOf(name, form) ==
    CASE form = "name" -> name
      [] form = "name:port" -> name \o <<":", "4", "4", "3">>
      [] form = "name." -> name \o <<".">>
      [] form = "name.:port" -> name \o <<".", ":", "4", "4", "3">>
      [] OTHER -> name

\* arguments of normalize_host: the spellings of three names, and the
\* values of the unit tests
HostInputs ==
    {[fn |-> "normalize_host", raw |-> HostOf(n, f), name |-> n, form |-> f] :
        n \in {<<"a", ".", "d">>, <<"A", ".", "D">>, <<"b", ".", "d">>},
        f \in {"name", "name:port", "name.", "name.:port"}}
    \cup
    {[fn |-> "normalize_host", raw |-> r, name |-> <<>>, form |-> "other"] :
        r \in {<<>>, <<" ", " ">>, <<"[", ":", ":", "1", "]">>,
               <<"[", ":", ":", "1", "]", ":", "4", "4", "3">>,
               <<":", "4", "4", "3">>, <<":", ":", "1">>}}

\* arguments of build_target_url: a base with zero to two trailing slashes
\* and the inbound request targets
UrlInputs ==
    {[fn |-> "build_target_url", base_url |-> b, uri |-> [path_and_query |-> u]] :
        b \in {<<"h", ":", "1">>, <<"h", ":", "1", "/">>, <<"h", ":", "1", "/", "/">>},
        u \in {None, Some(<<>>), Some(<<"/">>), Some(<<"/", "a", "?", "b">>),
               Some(<<"/", "a", "/">>), Some(<<"/", "/", "a">>), Some(<<"*">>)}}

FnInputs ==
    {[fn |-> "normalize_domain", input |-> s] :
        s \in Strings({"a", "A", ".", " "}, MaxLen)}
    \cup ReissueInputs \cup HostInputs \cup UrlInputs
    \cup {[fn |-> "from_toml_str", raw |-> r] : r \in RawConfigs}

\* normalize_domain applied to the argument, then to what it returned
NormalizeDomain ==
    /\ args.fn = "normalize_domain"
    /\ Len(call) < 2
    /\ call' = Append(call, normalize_domain(IF call = <<>> THEN args.input
                                             ELSE call[Len(call)]))
    /\ UNCHANGED args
    /\ UNCHANGED <<dnsvars, bootvars, proxyvars>>

ShouldReissue ==
    /\ args.fn = "should_reissue"
    /\ call = <<>>
    /\ call' = <<should_reissue(args.file, args.now, args.valid_days,
                                args.renew_before_days)>>
    /\ UNCHANGED args
    /\ UNCHANGED <<dnsvars, bootvars, proxyvars>>

NormalizeHost ==
    /\ args.fn = "normalize_host"
    /\ call = <<>>
    /\ call' = <<normalize_host(args.raw)>>
    /\ UNCHANGED args
    /\ UNCHANGED <<dnsvars, bootvars, proxyvars>>

BuildTargetUrl ==
    /\ args.fn = "build_target_url"
    /\ call = <<>>
    /\ call' = <<build_target_url(args.base_url, args.uri)>>
    /\ UNCHANGED args
    /\ UNCHANGED <<dnsvars, bootvars, proxyvars>>

FromTomlStr ==
    /\ args.fn = "from_toml_str"
    /\ call = <<>>
    /\ call' = <<from_toml_str(args.raw)>>
    /\ UNCHANGED args
    /\ UNCHANGED <<dnsvars, bootvars, proxyvars>>

InitFn ==
    /\ args \in FnInputs
    /\ call = <<>>
    /\ upstream = <<>>
    /\ ttl = 0
    /\ tasks = <<>>
    /\ ntasks = 0
    /\ buf = <<>>
    /\ fs = <<>>
    /\ boot = IdleBoot
    /\ nkeys = 0
    /\ trust = {}
    /\ now = 0
    /\ InitNoProxy

NextFn ==
    \/ NormalizeDomain
    \/ ShouldReissue
    \/ NormalizeHost
    \/ BuildTargetUrl
    \/ FromTomlStr

SpecFn == InitFn /\ [][NextFn]_vars

----------------------------------------------------------------------------
(* The DNS responder as a system *)

InitDns ==
    /\ \E c \in DnsConfigs : upstream = c.upstream /\ ttl = c.ttl_seconds
    /\ tasks = [t \in TaskIds |-> IdleTask]
    /\ ntasks = 0
    /\ buf = Malformed
    /\ fs = <<>>
    /\ boot = IdleBoot
    /\ nkeys = 0
    /\ trust = {}
    /\ now = 0
    /\ InitNoProxy
    /\ InitNoFn

NextDns ==
    \/ \E c \in ClientPackets : RecvFrom(c[1], c[2])
    \/ \E t \in TaskIds : HandlePacket(t)
    \/ \E t \in TaskIds, o \in {"ok", "bind error", "send error"} : SendQuery(t, o)
    \/ \E t \in TaskIds, a \in Sources, k \in 1..Len(upstream) :
          RecvReply(t, a, k, 0)
    \/ \E t \in TaskIds : RecvError(t)
    \/ \E t \in TaskIds : Deadline(t)
    \/ \E t \in TaskIds, ok \in BOOLEAN : SendResponse(t, ok)

SpecDns == InitDns /\ [][NextDns]_vars

\* one query and its forward, with the time that passes between the packets
\* received on the ephemeral socket
NextWait ==
    \/ \E c \in ClientPackets : ntasks = 0 /\ RecvFrom(c[1], c[2])
    \/ HandlePacket(1)
    \/ \E o \in {"ok", "bind error", "send error"} : SendQuery(1, o)
    \/ \E a \in Sources, k \in 1..Len(upstream), dt \in 0..(2 * DeadlineSecs) :
          RecvReply(1, a, k, dt)
    \/ RecvError(1)
    \/ Deadline(1)
    \/ \E ok \in BOOLEAN : SendResponse(1, ok)

\* the query of SpecWait is given to the handler of main.rs as well
InitWait ==
    /\ \E c \in DnsConfigs : upstream = c.upstream /\ ttl = c.ttl_seconds
    /\ tasks = [t \in TaskIds |->
                  [IdleTask EXCEPT !.legacy = [on |-> t = 1, ret |-> <<>>]]]
    /\ ntasks = 0
    /\ buf = Malformed
    /\ fs = <<>>
    /\ boot = IdleBoot
    /\ nkeys = 0
    /\ trust = {}
    /\ now = 0
    /\ InitNoProxy
    /\ InitNoFn

SpecWait == InitWait /\ [][NextWait]_vars

----------------------------------------------------------------------------
(* Properties of the DNS responder, checked under SpecDns *)

\* the tasks whose handle_dns_packet has run past the decoding of a question
Handled(t) ==
    /\ tasks[t].pc \notin {"idle", "spawned"}
    /\ tasks[t].packet.wf
    /\ tasks[t].packet.queries # <<>>

FirstQuery(t) == Head(tasks[t].packet.queries)

QName(t) == normalize_domain(NameToAscii(FirstQuery(t).name))

ForwardedOk(t) == tasks[t].result.ok /\ tasks[t].result.via = "forward"

LocalOk(t) == tasks[t].result.ok /\ tasks[t].result.via = "local"

\* C1: forward_dns_packet returns only the unchanged bytes of a datagram
\* whose source equals, in IP and in port, the upstream being tried; a
\* datagram of any other source is never returned; and is_valid_source is
\* true exactly when IP and port both match.
C1_ForwardReturnsOnlyUpstreamBytes ==
    /\ \A t \in TaskIds :
          ForwardedOk(t) =>
             LET b == tasks[t].result.bytes
                 server == upstream[tasks[t].idx]
             IN  /\ b.kind = "raw"
                 /\ b.src.ip = server.ip
                 /\ b.src.port = server.port
                 /\ b.dg = tasks[t].nrecv
                 /\ b = Datagram(tasks[t].sock, server, b.dg).bytes
    /\ \A f \in Sources, e \in Sources :
          is_valid_source(f, e) <=> (f.ip = e.ip /\ f.port = e.port)

\* C1 witness: a handler returned the second datagram its ephemeral socket
\* received, the first having been discarded
C1_Witness ==
    \E t \in TaskIds :
       /\ ForwardedOk(t)
       /\ tasks[t].nrecv = 2
       /\ tasks[t].result.bytes.dg = 2

\* C2: a query is answered from the local zone, no upstream being contacted,
\* exactly when the normalized name of its first question is a key of the
\* records map and its qtype is A, AAAA or ANY; every other query is
\* forwarded.
C2_LocalIffRecordAndType ==
    \A t \in TaskIds :
       Handled(t) =>
          LET local == /\ QName(t) \in DOMAIN Records
                       /\ FirstQuery(t).query_type \in {"A", "AAAA", "ANY"}
          IN  /\ local <=> tasks[t].result.via = "local"
              /\ local => tasks[t].tried = <<>> /\ tasks[t].sentTo = <<>>
              /\ ~local <=> tasks[t].tried # <<>>

\* C2 witness: an MX query for a local name has been sent to an upstream
C2_Witness ==
    \E t \in TaskIds :
       /\ Handled(t)
       /\ QName(t) \in DOMAIN Records
       /\ FirstQuery(t).query_type = "MX"
       /\ tasks[t].sentTo # <<>>

\* C3: an A reply holds exactly the |v4| A records in configured order, an
\* AAAA reply exactly the |v6| AAAA records, an ANY reply the |v4|+|v6|
\* records with every A before every AAAA; every answer carries the
\* configured TTL; an empty family gives NoError with zero answers and no
\* forwarding.
C3_LocalAnswerSection ==
    \A t \in TaskIds :
       (Handled(t) /\ tasks[t].result.via = "local") =>
          LET qtype == FirstQuery(t).query_type
              addrs == Records[QName(t)]
              ans == tasks[t].result.bytes.answers
              n4 == Len(addrs.ipv4)
              n6 == Len(addrs.ipv6)
          IN  /\ tasks[t].result.ok
              /\ tasks[t].result.bytes.header.response_code = "NoError"
              /\ tasks[t].tried = <<>>
              /\ \A i \in DOMAIN ans : ans[i].ttl = ttl
              /\ qtype = "A" =>
                    /\ Len(ans) = n4
                    /\ \A i \in 1..n4 :
                          ans[i].rtype = "A" /\ ans[i].rdata = addrs.ipv4[i]
              /\ qtype = "AAAA" =>
                    /\ Len(ans) = n6
                    /\ \A i \in 1..n6 :
                          ans[i].rtype = "AAAA" /\ ans[i].rdata = addrs.ipv6[i]
              /\ qtype = "ANY" =>
                    /\ Len(ans) = n4 + n6
                    /\ \A i \in 1..n4 :
                          ans[i].rtype = "A" /\ ans[i].rdata = addrs.ipv4[i]
                    /\ \A i \in 1..n6 :
                          /\ ans[n4 + i].rtype = "AAAA"
                          /\ ans[n4 + i].rdata = addrs.ipv6[i]

\* C3 witness: an ANY reply with two A records followed by one AAAA record,
\* and an AAAA reply for an A-only record with no answer
C3_Witness ==
    \E t1 \in TaskIds, t2 \in TaskIds :
       /\ LocalOk(t1) /\ FirstQuery(t1).query_type = "ANY"
       /\ Len(tasks[t1].result.bytes.answers) = 3
       /\ LocalOk(t2) /\ FirstQuery(t2).query_type = "AAAA"
       /\ Records[QName(t2)].ipv4 # <<>>
       /\ tasks[t2].result.bytes.answers = <<>>

\* C4: a local reply has the id of the request, type Response, the opcode
\* and recursion_desired of the request, recursion_available and
\* authoritative set, response code NoError, and exactly the first question
\* of the request in its question section.
C4_LocalHeader ==
    \A t \in TaskIds :
       LocalOk(t) =>
          LET h == tasks[t].result.bytes.header
              req == tasks[t].packet
          IN  /\ h.id = req.id
              /\ h.message_type = "Response"
              /\ h.op_code = req.op_code
              /\ h.recursion_desired = req.recursion_desired
              /\ h.recursion_available = TRUE
              /\ h.authoritative = TRUE
              /\ h.response_code = "NoError"
              /\ h.queries = <<req.queries[1]>>

\* C4 witness: the reply to a request with opcode Status, recursion not
\* desired, has been sent to its peer
C4_Witness ==
    \E t \in TaskIds :
       /\ LocalOk(t)
       /\ tasks[t].packet.op_code = "Status"
       /\ ~tasks[t].packet.recursion_desired
       /\ tasks[t].replies # <<>>

\* C5: the upstreams are tried strictly in configuration order, none twice,
\* the query going to an upstream only once the attempts at all earlier ones
\* have ended; a returned reply comes from the one upstream tried last.
C5_UpstreamsInOrder ==
    \A t \in TaskIds :
       LET tried == tasks[t].tried
           sent == tasks[t].sentTo
       IN  /\ Len(tried) <= Len(upstream)
           /\ \A i \in DOMAIN tried : tried[i] = i
           /\ tasks[t].pc \in {"bind", "recv"} => tasks[t].idx = Len(tried)
           /\ \A i \in DOMAIN sent :
                 /\ sent[i].idx \in DOMAIN tried
                 /\ sent[i].to = upstream[sent[i].idx]
                 /\ \A j \in DOMAIN sent :
                       i < j => /\ sent[i].idx < sent[j].idx
                                /\ sent[i].sock # sent[j].sock
           /\ ForwardedOk(t) =>
                 /\ sent # <<>>
                 /\ sent[Len(sent)].idx = Len(tried)
                 /\ tasks[t].result.bytes.src = sent[Len(sent)].to
                 /\ tasks[t].idx = Len(tried)

\* C5 witness: the reply of the second upstream has been returned after the
\* attempt at the first ended without one
C5_Witness ==
    \E t \in TaskIds :
       /\ ForwardedOk(t)
       /\ tasks[t].tried = <<1, 2>>
       /\ Len(tasks[t].sentTo) = 2

\* C6: an attempt that ends by deadline, receive error or send error is
\* followed by the next upstream: the forward fails only after every
\* configured upstream has been attempted.
C6_FailsOnlyAfterAllUpstreams ==
    \A t \in TaskIds :
       (tasks[t].pc = "done" /\ ~tasks[t].result.ok
          /\ tasks[t].result.via \in {"send", "forward"}) =>
             Len(tasks[t].tried) = Len(upstream)

\* C7: a received packet produces at most one reply on the listen socket,
\* and none, the error being logged, when it is malformed, has no question,
\* or every upstream is exhausted.
C7_AtMostOneReply ==
    \A t \in TaskIds :
       /\ Len(tasks[t].replies) <= 1
       /\ tasks[t].replies # <<>> => tasks[t].result.ok
       /\ (tasks[t].pc \notin {"idle", "spawned"}
             /\ \/ ~tasks[t].packet.wf
                \/ tasks[t].packet.queries = <<>>
                \/ tasks[t].result.err = "all upstream dns servers failed") =>
             /\ tasks[t].pc = "done"
             /\ tasks[t].replies = <<>>
             /\ tasks[t].errlog = <<"request handling failed">>

\* C7 witness: both upstreams were tried without an accepted reply and the
\* task ended with no reply and one logged error
C7_Witness ==
    \E t \in TaskIds :
       /\ tasks[t].pc = "done"
       /\ tasks[t].result.err = "all upstream dns servers failed"
       /\ tasks[t].tried = <<1, 2>>
       /\ tasks[t].replies = <<>>
       /\ Len(tasks[t].errlog) = 1

----------------------------------------------------------------------------
(* Properties of the root CA and of the boot, checked under SpecBoot *)

Wrote(path) == \E k \in DOMAIN boot.writes : boot.writes[k] = path

\* C8: load_or_create_ca returns ca_created = true exactly when
\* rootCA-key.pem or rootCA.pem did not exist before the call.
C8_CaCreatedIffFileMissing ==
    boot.ca_done =>
       (boot.created <=> (boot.pre.caKey = 0 \/ boot.pre.caCert = 0))

\* C8 witness: with the key missing and the certificate present, the call
\* has returned ca_created = true
C8_Witness ==
    /\ boot.ca_done
    /\ boot.pre.caKey = 0
    /\ boot.pre.caCert # 0
    /\ boot.created

\* C9: an existing rootCA-key.pem is never rewritten and is the signing key;
\* with both files present neither is written; with the key present and the
\* certificate missing, rootCA.pem is written, self-signed by that key; the
\* certificate file is written exactly when ca_created is true.
C9_RecoveryMatrixEffects ==
    /\ (boot.n > 0 /\ boot.pre.caKey # 0) =>
          /\ fs.caKey = boot.pre.caKey
          /\ ~Wrote("rootCA-key.pem")
    /\ boot.ca_done =>
          /\ boot.pre.caKey # 0 => boot.ca_key = boot.pre.caKey
          /\ (boot.pre.caKey # 0 /\ boot.pre.caCert # 0) =>
                /\ ~Wrote("rootCA.pem")
                /\ fs.caCert = boot.pre.caCert
          /\ (boot.pre.caKey # 0 /\ boot.pre.caCert = 0) =>
                /\ Wrote("rootCA.pem")
                /\ fs.caCert = boot.pre.caKey
          /\ Wrote("rootCA.pem") <=> boot.created

\* C9 witness: with the key present and the certificate missing, the call
\* has written a certificate signed by the key that was on disk
C9_Witness ==
    /\ boot.ca_done
    /\ boot.pre.caKey # 0
    /\ boot.pre.caCert = 0
    /\ fs.caCert = fs.caKey
    /\ boot.writes = <<"rootCA.pem">>

\* the boot has passed the test of ca_created in server::run
PastInstall == boot.pc \in {"tls", "listening", "stopped"} \/ boot.err \in {"install", "tls config"}

\* C10: the trust installer is invoked exactly when provisioning returned
\* ca_created = true, at most once per boot and only after provisioning has
\* succeeded; a boot with both CA files present never invokes it.
C10_InstallIffCaCreated ==
    /\ boot.installs <= 1
    /\ boot.installs = 1 =>
          /\ boot.ca_done
          /\ boot.created
          /\ DOMAIN boot.certs = ProxyDomainSet
    /\ PastInstall => (boot.installs = 1 <=> boot.created)
    /\ (boot.pre.caKey # 0 /\ boot.pre.caCert # 0) => boot.installs = 0

\* C10 witness: a boot that created the CA has installed it and started the
\* listeners
C10_Witness ==
    /\ boot.pc = "listening"
    /\ boot.created
    /\ boot.installs = 1
    /\ fs.caCert \in trust

----------------------------------------------------------------------------
(* Properties of the leaf certificates and of the functions taken alone *)

\* should_reissue has been called on the arguments drawn
CalledShouldReissue == args.fn = "should_reissue" /\ call # <<>>

\* C11: should_reissue returns true exactly when the file is missing, or
\* valid_days - renew_before_days is not positive, or the mtime cannot be
\* read or lies in the future, or the file is at least
\* valid_days - renew_before_days days old; with 90/30 a file 61 days old
\* is reissued and one 59 days old is not.
C11_ShouldReissueIff ==
    CalledShouldReissue =>
       /\ call[1] <=>
             \/ ~args.file.exists
             \/ args.valid_days <= args.renew_before_days
             \/ ~args.file.mtime_ok
             \/ args.file.mtime > args.now
             \/ args.now - args.file.mtime >=
                   (args.valid_days - args.renew_before_days) * 86400
       /\ (/\ args.file.exists /\ args.file.mtime_ok
           /\ args.valid_days = 90 /\ args.renew_before_days = 30) =>
             /\ args.now - args.file.mtime = 61 * 86400 => call[1]
             /\ args.now - args.file.mtime = 59 * 86400 => ~call[1]

\* C11 witness: with 90/30, a readable file exactly 60 days old has been
\* found due for reissue
C11_Witness ==
    /\ CalledShouldReissue
    /\ args.file.exists
    /\ args.file.mtime_ok
    /\ args.valid_days = 90
    /\ args.renew_before_days = 30
    /\ args.now - args.file.mtime = 60 * 86400
    /\ call[1]

\* provision_certificates has returned Ok in the running boot
ProvisionOk == boot.ca_done /\ boot.i > Len(ProxyDomains)

\* C12: a successful provision_certificates returns a certs map whose keys
\* are exactly the proxy domains, each mapped to (<domain>.pem,
\* <domain>.key); a domain for which should_reissue was false keeps both
\* files as they were before the call, and a domain for which it was true
\* has both files rewritten, at this boot, with a key pair generated during
\* this call and shared with no other domain.
C12_ProvisionedCerts ==
    ProvisionOk =>
       /\ DOMAIN boot.certs = ProxyDomainSet
       /\ DOMAIN boot.reissue = ProxyDomainSet
       /\ \A d \in ProxyDomainSet :
             /\ boot.certs[d] = [cert_path |-> Str(d) \o ".pem",
                                 key_path |-> Str(d) \o ".key"]
             /\ boot.reissue[d] <=>
                   should_reissue(boot.pre.pem[d], now, ValidDays, RenewBeforeDays)
             /\ ~boot.reissue[d] =>
                   /\ fs.pem[d] = boot.pre.pem[d]
                   /\ fs.key[d] = boot.pre.key[d]
                   /\ ~Wrote(Str(d) \o ".pem")
                   /\ ~Wrote(Str(d) \o ".key")
             /\ boot.reissue[d] =>
                   /\ fs.pem[d].exists
                   /\ fs.pem[d].mtime = now
                   /\ fs.pem[d].leafKey > boot.keys0
                   /\ fs.key[d] = fs.pem[d].leafKey
                   /\ Wrote(Str(d) \o ".pem")
                   /\ Wrote(Str(d) \o ".key")
                   /\ \A e \in ProxyDomainSet \ {d} : fs.key[e] # fs.key[d]

\* C12 witness: provisioning has succeeded with one domain reissued over
\* files that existed and the other reused
C12_Witness ==
    /\ ProvisionOk
    /\ \E d, e \in ProxyDomainSet :
          /\ boot.reissue[d]
          /\ boot.pre.pem[d].exists
          /\ boot.pre.key[d] # 0
          /\ fs.key[d] # boot.pre.key[d]
          /\ ~boot.reissue[e]

\* C13: after a run whose issuance for a domain failed, the next run
\* decides to issue that domain again (stated as the claim has it; the
\* code breaks it when <domain>.pem was written and <domain>.key was not).
C13_RetryReissuesFailedDomain ==
    \A d \in DOMAIN boot.reissue :
       d = boot.prev_failed_domain => boot.reissue[d]

----------------------------------------------------------------------------
(* Properties of the TLS resolver and of the proxy *)

\* the resolver has answered the ClientHello of connection c
Resolved(c) == conns[c].pc \in {"serving", "forward", "upstream", "closed"}

\* C14: resolve never returns None; when the normalized server name is a
\* key of the certificate map it returns the CertifiedKey loaded from that
\* domain's files, and otherwise (no server name, or an unknown one) the
\* default.
C14_ResolveNeverNone ==
    \A c \in DOMAIN conns :
       Resolved(c) =>
          LET sni == IF conns[c].server_name = <<>> THEN <<>>
                     ELSE conns[c].server_name[1]
              domain == normalize_domain(sni)
          IN  /\ conns[c].cert # <<>>
              /\ Len(conns[c].cert) = 1
              /\ domain \in ProxyDomainSet =>
                    /\ conns[c].cert[1] = resolver.certs[domain]
                    /\ conns[c].cert[1].cert = ProvisionedFiles.pem[domain].leafKey
                    /\ conns[c].cert[1].key = ProvisionedFiles.key[domain]
              /\ domain \notin ProxyDomainSet => conns[c].cert = resolver.default

\* C14 witness: a ClientHello naming A.D. has been given the certificate of
\* a.d while the default is the certificate of b.d
C14_Witness ==
    \E c \in DOMAIN conns :
       /\ Resolved(c)
       /\ conns[c].server_name = <<(<<"A", ".", "D", ".">>)>>
       /\ conns[c].cert # resolver.default
       /\ conns[c].cert[1].key = ProvisionedFiles.key[<<"a", ".", "d">>]

\* C15: once the listeners are started, the default certificate of the
\* resolver is the one of the first proxy domain in configuration order
\* (stated as the claim has it; the code takes the first entry that the
\* iteration of a HashMap yields).
C15_DefaultIsFirstProxyDomain ==
    boot.pc = "listening" =>
       resolver.default =
          <<[cert |-> fs.pem[ProxyDomains[1]].leafKey,
             issuer |-> fs.pem[ProxyDomains[1]].issuer,
             key |-> fs.key[ProxyDomains[1]]]>>

\* the handler has taken a request on connection c
Routed(c) == conns[c].nreq > 0

\* the Host value of the request in hand, as the handler normalizes it
NormalizedHost(c) == normalize_host(IncomingHost(conns[c].req))

HopByHop ==
    {"connection", "proxy-connection", "keep-alive", "te", "trailer", "upgrade",
     "transfer-encoding"}

\* the header names that occur in the requests and responses
HeaderNames ==
    UNION {{r.headers[k].name : k \in DOMAIN r.headers} :
              r \in ClientRequests \cup UpstreamResponses}
       \cup HopByHop \cup {"host"}

\* C19: is_hop_by_hop holds exactly of connection, proxy-connection,
\* keep-alive, te, trailer, upgrade and transfer-encoding, and not of host;
\* the upstream request carries, in order, exactly the inbound headers that
\* are neither Host nor hop-by-hop, and the relayed response exactly the
\* upstream response headers that are not hop-by-hop.
C19_HopByHopHeaders ==
    /\ \A n \in HeaderNames : is_hop_by_hop(n) <=> n \in HopByHop
    /\ ~is_hop_by_hop("host")
    /\ \A c \in DOMAIN conns :
          /\ conns[c].contacted # <<>> =>
                conns[c].upstream_req.headers =
                   SelectSeq(conns[c].req.headers,
                             LAMBDA h : h.name \notin HopByHop \cup {"host"})
          /\ conns[c].resp.body = "upstream body" =>
                conns[c].resp.headers =
                   SelectSeq(conns[c].upstream_resp.headers,
                             LAMBDA h : h.name \notin HopByHop)

\* C19 witness: a request carrying connection, te and keep-alive has been
\* forwarded with its two x-a headers only, and a response carrying
\* transfer-encoding, te and host has been relayed with host only
C19_Witness ==
    \E c \in DOMAIN conns :
       /\ conns[c].upstream_req.headers =
             <<[name |-> "x-a", value |-> <<"1">>], [name |-> "x-a", value |-> <<"2">>]>>
       /\ conns[c].resp.status = 404
       /\ conns[c].resp.headers = <<[name |-> "host", value |-> <<"u">>]>>

----------------------------------------------------------------------------
(* Properties of the functions taken alone, checked under SpecFn *)

\* C17: for a Host value written as name, name:port, name. or name.:port,
\* in any letter case, normalize_host returns normalize_domain(name)
\* (stated as the claim has it; the code breaks it for name.:port, where
\* the dot is no longer trailing when it is trimmed).
C17_HostSpellingsSameRoute ==
    (args.fn = "normalize_host" /\ call # <<>> /\ args.form # "other") =>
       call[1] = normalize_domain(args.name)

\* the argument of normalize_domain in upper case
Upper(s) == [i \in 1..Len(s) |-> IF s[i] = "a" THEN "A" ELSE s[i]]

\* C18: normalize_domain is idempotent on every string, and strings that
\* differ only in letter case, in a trailing dot or in surrounding spaces
\* normalize to the same value (stated as the claim has it; the code
\* breaks it on strings with a space before a trailing dot).
C18_NormalizeIdempotent ==
    (args.fn = "normalize_domain" /\ call # <<>>) =>
       /\ Len(call) = 2 => call[2] = call[1]
       /\ call[1] = normalize_domain(Upper(args.input))
       /\ call[1] = normalize_domain(args.input \o <<".">>)
       /\ call[1] = normalize_domain(<<" ">> \o args.input \o <<" ">>)

\* build_target_url has been called on the arguments drawn
CalledBuildTargetUrl == args.fn = "build_target_url" /\ call # <<>>

\* the path-and-query that the target is built from: "/" when the URI has
\* none or an empty one
TargetPath ==
    IF args.uri.path_and_query = <<>> \/ args.uri.path_and_query = <<(<<>>)>>
    THEN <<"/">> ELSE args.uri.path_and_query[1]

\* the length of the base once its trailing slashes are removed
TrimmedLen ==
    CHOOSE k \in 0..Len(args.base_url) :
       /\ k > 0 => args.base_url[k] # "/"
       /\ \A j \in (k + 1)..Len(args.base_url) : args.base_url[j] = "/"

\* C20 (amended): build_target_url returns the base without its trailing
\* slashes followed by the path-and-query ("/" when absent), so the base
\* gives no slash to the junction: the slashes between base and path are
\* the leading slashes of the path-and-query, at most one whenever the
\* path-and-query does not itself begin with "//".
C20_TargetUrl ==
    CalledBuildTargetUrl =>
       /\ call[1] = SubSeq(args.base_url, 1, TrimmedLen) \o TargetPath
       /\ call[1][TrimmedLen] # "/"
       /\ ~(Len(TargetPath) >= 2 /\ TargetPath[1] = "/" /\ TargetPath[2] = "/") =>
             ~(call[1][TrimmedLen + 1] = "/" /\ Len(call[1]) >= TrimmedLen + 2
                  /\ call[1][TrimmedLen + 2] = "/")

\* C20 witness: a base ending in two slashes and the target /a?b have given
\* h:1/a?b
C20_Witness ==
    /\ CalledBuildTargetUrl
    /\ args.base_url = <<"h", ":", "1", "/", "/">>
    /\ call[1] = <<"h", ":", "1", "/", "a", "?", "b">>

\* C20 as stated: for every base and every inbound URI at most one slash
\* stands between the base and the path (broken by the request target //a,
\* whose two leading slashes are kept).
C20_AtMostOneSlash ==
    CalledBuildTargetUrl =>
       /\ call[1] = SubSeq(args.base_url, 1, TrimmedLen) \o TargetPath
       /\ ~(call[1][TrimmedLen + 1] = "/" /\ Len(call[1]) >= TrimmedLen + 2
              /\ call[1][TrimmedLen + 2] = "/")

----------------------------------------------------------------------------
(* C21-C22, C27: the proxy's answers for routed requests, the supervisor *)

\* connection c has an answer of proxy_handler for a request that had a route
Forwarded(c) ==
    /\ Routed(c)
    /\ conns[c].pc = "serving"
    /\ conns[c].route # None

C22_FirstFailureWins ==
    /\ (boot.dns = "failed" \/ boot.proxy = "failed") => boot.pc = "stopped"
    /\ boot.dns = "failed" =>
          /\ boot.dns_err \in {"failed to bind dns socket", "dns recv_from failed"}
          /\ boot.ret = boot.dns_err
          /\ boot.proxy = "cancelled"
    /\ boot.proxy = "failed" =>
          /\ boot.proxy_err \in {"failed to build proxy http client",
                                 "failed to bind proxy socket",
                                 "failed to accept proxy tcp connection"}
          /\ boot.ret = boot.proxy_err
          /\ boot.dns = "cancelled"
    /\ (boot.pc = "stopped" /\ boot.dns # "failed" /\ boot.proxy # "failed") =>
          /\ boot.ret = "ok"
          /\ boot.dns = "cancelled"
          /\ boot.proxy = "cancelled"
    /\ boot.ret = "ok" => (boot.dns_err = "" /\ boot.proxy_err = "")
    /\ boot.pc = "listening" => ENABLED Interrupt

\* the DNS receive loop failed while the proxy was listening and a spawned
\* task was running: run returned the DNS error, the proxy is cancelled
C22_Witness ==
    /\ boot.pc = "stopped"
    /\ boot.ret = "dns recv_from failed"
    /\ boot.proxy = "cancelled"
    /\ boot.bound = {"udp", "tcp"}
    /\ boot.workers > 0

\* C27: boot goes Config -> CA provisioner -> (trust installer iff the root
\* CA was just created) -> TLS resolver -> (DNS || proxy): with tls.enabled
\* false the boot is rejected before any file is written or socket bound,
\* and no listener is bound unless provisioning, the trust installation
\* when it is required, and the TLS configuration have all succeeded.
C27_BootOrder ==
    /\ (~boot.enabled /\ boot.pc # "off") =>
          /\ boot.pc = "failed"
          /\ boot.err = "tls.enabled must be true"
          /\ boot.writes = <<>>
          /\ fs = boot.pre
          /\ nkeys = boot.keys0
          /\ boot.installs = 0
          /\ boot.bound = {}
          /\ boot.dns = "off" /\ boot.proxy = "off"
    /\ boot.installs = 1 => ProvisionOk
    /\ boot.pc = "tls" => (ProvisionOk /\ (boot.created <=> boot.installs = 1))
    /\ (boot.bound # {} \/ boot.dns # "off" \/ boot.proxy # "off") =>
          /\ boot.pc \in {"listening", "stopped"}
          /\ boot.err = ""
          /\ ProvisionOk
          /\ DOMAIN boot.certs = ProxyDomainSet
          /\ boot.created <=> boot.installs = 1
          /\ boot.created => fs.caCert \in trust
          /\ resolver.default # None
          /\ DOMAIN resolver.certs = ProxyDomainSet

\* both listeners are bound in a boot that created and installed the CA
C27_Witness ==
    /\ boot.bound = {"udp", "tcp"}
    /\ boot.pc = "listening"
    /\ boot.created
    /\ boot.installs = 1

----------------------------------------------------------------------------
(* C23-C26: configuration loading *)

CalledFromTomlStr == args.fn = "from_toml_str" /\ call # <<>>

\* the pairs of [[proxy]] rows with the same domain after normalization
DuplicateProxyRows(raw) ==
    {p \in (DOMAIN raw.proxy) \X (DOMAIN raw.proxy) :
        /\ p[1] < p[2]
        /\ normalize_domain(raw.proxy[p[1]].domain)
              = normalize_domain(raw.proxy[p[2]].domain)}

\* the configuration with its [[proxy]] rows before row k only
ProxyRowsBefore(raw, k) == [raw EXCEPT !.proxy = SubSeq(@, 1, k - 1)]

\* C23 as amended: a configuration with two [[proxy]] rows of the same
\* normalized domain never loads; the error is "duplicate proxy.domain"
\* whenever the configuration cut before the second of the two rows loads,
\* that is, unless an earlier check has ended the load with its own error.
C23_DuplicateProxyDomainFails ==
    CalledFromTomlStr =>
        \A p \in DuplicateProxyRows(args.raw) :
            /\ ~call[1].ok
            /\ call[1].config = None
            /\ from_toml_str(ProxyRowsBefore(args.raw, p[2])).ok
                  => call[1].err = "duplicate proxy.domain"

\* two rows that differ in case and trailing dot are refused as duplicates
C23_Witness ==
    /\ CalledFromTomlStr
    /\ DuplicateProxyRows(args.raw) # {}
    /\ args.raw.proxy[1].domain # args.raw.proxy[2].domain
    /\ call[1].err = "duplicate proxy.domain"

\* C23 as stated: every configuration with two [[proxy]] rows of the same
\* normalized domain fails with the "duplicate proxy.domain" error.
C23_DuplicateProxyDomainError ==
    CalledFromTomlStr =>
        (DuplicateProxyRows(args.raw) # {} =>
            /\ ~call[1].ok
            /\ call[1].config = None
            /\ call[1].err = "duplicate proxy.domain")

\* an upstream with nothing before its ':' or with no characters at all
EmptyHost(u) == u = <<>> \/ u[1] = ":"

\* an upstream with no ':' or with nothing after it
MissingPort(u) == Find(u, ":") = 0 \/ u[Len(u)] = ":"

\* the configuration with the upstream of [[proxy]] row k replaced by h:1
GoodUpstream(raw, k) == [raw EXCEPT !.proxy[k].upstream = <<"h", ":", "1">>]

C25_TlsRenewWindow ==
    CalledFromTomlStr =>
        LET v == IF args.raw.tls.valid_days = None THEN 90
                 ELSE args.raw.tls.valid_days[1]
            r == IF args.raw.tls.renew_before_days = None THEN 30
                 ELSE args.raw.tls.renew_before_days[1]
        IN  /\ (v = 0 \/ r >= v) => (~call[1].ok /\ call[1].config = None)
            /\ call[1].ok =>
                   /\ call[1].config[1].tls.valid_days = v
                   /\ call[1].config[1].tls.renew_before_days = r
                   /\ 0 <= r /\ r < v

\* valid_days = 30 with renew_before_days absent (30 by default) is refused
C25_Witness ==
    /\ CalledFromTomlStr
    /\ args.raw.tls.valid_days = Some(30)
    /\ args.raw.tls.renew_before_days = None
    /\ call[1].err = "tls.renew_before_days must be smaller than tls.valid_days"

\* C26: every AppConfig that loads has at least one DNS upstream, at least
\* one record, an address in every DomainAddrs, pairwise distinct record
\* domains, at least one proxy, and one listen address for all proxies.
C26_LoadedConfigInvariants ==
    (CalledFromTomlStr /\ call[1].ok) =>
        LET config == call[1].config[1]
        IN  /\ Len(config.dns.upstream) >= 1
            /\ DOMAIN config.records # {}
            /\ \A d \in DOMAIN config.records :
                   config.records[d].ipv4 # <<>> \/ config.records[d].ipv6 # <<>>
            /\ Cardinality(DOMAIN config.records) = Len(args.raw.record)
            /\ \A i, j \in DOMAIN args.raw.record :
                   i # j => normalize_domain(args.raw.record[i].domain)
                              # normalize_domain(args.raw.record[j].domain)
            /\ Len(config.proxies) >= 1
            /\ \A k \in DOMAIN config.proxies :
                   config.proxies[k].listen = config.proxies[1].listen

\* a configuration with two proxies has loaded
C26_Witness ==
    /\ CalledFromTomlStr
    /\ call[1].ok
    /\ Len(call[1].config[1].proxies) = 2
    /\ call[1].config[1].proxies[1].domain # call[1].config[1].proxies[2].domain

----------------------------------------------------------------------------
(* C28-C30: the deadline of an attempt, its socket, the handler's bytes *)

\* C28: the wait for one upstream has one deadline of 2 seconds in all,
\* which packets of other sources do not extend: whatever arrives, the
\* pending receive never waits beyond the deadline and the attempt is over
\* by then; with at most one attempt per configured upstream the forward
\* ends.
C28_SingleDeadlinePerUpstream ==
    /\ tasks[1].pc = "recv" =>
          /\ tasks[1].clock <= DeadlineSecs
          /\ tasks[1].wake <= DeadlineSecs
          /\ tasks[1].clock < tasks[1].wake
    /\ Len(tasks[1].tried) <= Len(upstream)
    /\ \A i, j \in DOMAIN tasks[1].tried :
          i # j => tasks[1].tried[i] # tasks[1].tried[j]
    /\ (tasks[1].pc = "done" /\ tasks[1].result.via = "forward"
           /\ ~tasks[1].result.ok) => Len(tasks[1].tried) = Len(upstream)

\* two packets of other sources have arrived, a second after the query was
\* sent, and the receive still waits for the one deadline
C28_Witness ==
    /\ tasks[1].pc = "recv"
    /\ tasks[1].nrecv = 2
    /\ tasks[1].clock = 1
    /\ tasks[1].wake = DeadlineSecs

\* C29: every attempt binds a socket of its own, so a packet addressed to
\* the socket of the attempt at upstream i is never returned as the reply
\* during the attempt at a later upstream j.
C29_FreshSocketPerAttempt ==
    \A t \in TaskIds :
       LET sent == tasks[t].sentTo
       IN  /\ \A i, j \in DOMAIN sent : i # j => sent[i].sock # sent[j].sock
           /\ tasks[t].pc = "recv" => tasks[t].sock = sent[Len(sent)].sock
           /\ ForwardedOk(t) =>
                 /\ tasks[t].reply_for = tasks[t].idx
                 /\ sent[tasks[t].reply_for].sock = tasks[t].sock
                 /\ sent[tasks[t].reply_for].to = tasks[t].result.bytes.src

\* the second upstream's reply was returned on the socket of the second
\* attempt
C29_Witness ==
    \E t \in TaskIds :
       /\ ForwardedOk(t)
       /\ tasks[t].idx = 2
       /\ tasks[t].reply_for = 2
       /\ tasks[t].sock = Socket(t, 2)

\* C30: every received packet is copied into a buffer of its task before
\* the handler is spawned, so a handler processes the bytes of its own
\* datagram even when later datagrams have overwritten the receive buffer.
C30_HandlerReadsOwnDatagram ==
    \A t \in TaskIds :
       /\ tasks[t].pc \notin {"idle", "spawned"} => tasks[t].seen = tasks[t].packet
       /\ (ntasks > 0 /\ t = ntasks) => buf = tasks[t].packet

\* the first handler has read its datagram after a different one had been
\* received into the buffer
C30_Witness ==
    /\ ntasks = 2
    /\ tasks[1].pc \notin {"idle", "spawned"}
    /\ tasks[2].pc = "spawned"
    /\ buf # tasks[1].packet
    /\ tasks[1].seen = tasks[1].packet

\* C31: the DNS receive loop never waits for a handler: whatever the spawned
\* tasks are doing, a task blocked on its upstream included, the loop
\* accepts the next packet, and a task that is ready to forward or to
\* reply can do so; so handlers are unordered and a later local query can
\* be answered before an earlier forwarded one.
C31_LoopNeverWaitsForHandler ==
    /\ ntasks < MaxTasks =>
          \A c \in ClientPackets : ENABLED RecvFrom(c[1], c[2])
    /\ \A t \in TaskIds :
          /\ tasks[t].pc = "bind" => ENABLED SendQuery(t, "ok")
          /\ tasks[t].pc = "respond" => ENABLED SendResponse(t, TRUE)

\* C31 witness: the first query is still waiting for its upstream and the
\* local query received after it has its reply already
C31_Witness ==
    /\ ntasks = 2
    /\ tasks[1].pc = "recv"
    /\ tasks[1].replies = <<>>
    /\ tasks[2].pc = "done"
    /\ LocalOk(2)
    /\ Len(tasks[2].replies) = 1

\* C37: a DNS reply is sent to the peer from which that same request was
\* received and carries the bytes its own handler returned, the requests
\* of the two tasks coming from different peers included.
C37_ReplyToOwnPeer ==
    \A t \in TaskIds :
       \A i \in DOMAIN tasks[t].replies :
          /\ tasks[t].replies[i].to = tasks[t].peer
          /\ tasks[t].replies[i].bytes = tasks[t].result.bytes

\* C37 witness: two requests of different peers were in flight together and
\* each has been answered, the first by an upstream and the second locally
C37_Witness ==
    /\ ntasks = 2
    /\ tasks[1].peer # tasks[2].peer
    /\ tasks[1].pc = "done"
    /\ tasks[2].pc = "done"
    /\ Len(tasks[1].replies) = 1
    /\ Len(tasks[2].replies) = 1
    /\ tasks[1].result.via = "forward"
    /\ tasks[2].result.via = "local"

\* C39: the DNS handling of main.rs is observationally equivalent to that
\* of server.rs with dns.rs: for the same client packet and the same events
\* on the ephemeral sockets, the handler of main.rs returns when and what
\* the handler of dns.rs returns, so that the same bytes go to the same
\* peer; a packet whose source is not the upstream being tried is
\* discarded by both.
C39_MainEquivalentToDns ==
    \A t \in TaskIds :
       tasks[t].legacy.on =>
          IF tasks[t].pc \in {"respond", "done"}
          THEN tasks[t].legacy.ret = <<tasks[t].result>>
          ELSE tasks[t].legacy.ret = <<>>

\* the errors that run_dns and proxy::run return
LoopErrors ==
    {"failed to bind dns socket", "dns recv_from failed",
     "failed to build proxy http client", "failed to bind proxy socket",
     "failed to accept proxy tcp connection"}

\* C32: per-request failures are contained: an error of a DNS handler, a
\* failed send of a reply, a failed TLS handshake or a failed HTTP
\* connection ends only its task. When tasks have failed and neither loop
\* has returned an error nor the signal come, the run is still listening
\* with both loops alive, and each loop can take its next request;
\* server::run never returns the error of a task.
C32_TaskFailuresContained ==
    /\ (boot.task_errors # {} /\ boot.dns_err = "" /\ boot.proxy_err = ""
           /\ boot.ret # "ok") =>
          /\ boot.pc = "listening"
          /\ boot.dns \in {"start", "listening"}
          /\ boot.proxy \in {"start", "listening"}
    /\ boot.pc = "stopped" => boot.ret \in LoopErrors \cup {"ok"}
    /\ (boot.pc = "listening" /\ boot.dns = "listening"
           /\ boot.workers < MaxWorkers) => ENABLED RunDns(TRUE)
    /\ (boot.pc = "listening" /\ boot.proxy = "listening"
           /\ boot.conn_tasks < MaxWorkers) => ENABLED RunProxy("ok")

\* C32 witness: a DNS task and a connection task have failed, and the two
\* loops, still running, have each spawned a task again
C32_Witness ==
    /\ boot.task_errors = {"dns", "conn"}
    /\ boot.pc = "listening"
    /\ boot.dns = "listening"
    /\ boot.proxy = "listening"
    /\ boot.workers >= 1
    /\ boot.conn_tasks >= 1

----------------------------------------------------------------------------
(* C33-C36, C40: the keys of the maps, the leaves and the trust store *)

\* C33: every key of the records map, of the proxy routes map (the domain
\* of each ProxyConfig) and of the TLS certificate map (normalize_domain of
\* that domain) is a fixed point of normalize_domain, so that a normalized
\* query name, Host or SNI finds the entry of every configured domain.
C33_MapKeysNormalized ==
    (CalledFromTomlStr /\ call[1].ok) =>
        LET config == call[1].config[1]
        IN  /\ \A d \in DOMAIN config.records : normalize_domain(d) = d
            /\ \A k \in DOMAIN config.proxies :
                   LET route_key == config.proxies[k].domain
                       cert_key == normalize_domain(route_key)
                   IN  /\ normalize_domain(route_key) = route_key
                       /\ normalize_domain(cert_key) = cert_key

\* C34: every leaf that a successful provisioning hands to the TLS
\* resolver, issued or reused, is signed by the root CA key that is on disk
\* after that provisioning.
C34_LeavesSignedByCaOnDisk ==
    ProvisionOk =>
       \A d \in DOMAIN boot.certs :
          /\ fs.pem[d].exists
          /\ fs.pem[d].issuer = fs.caKey

\* C35: whenever a boot reaches the state where the listeners are started,
\* the rootCA.pem on disk has been installed into the OS trust store, by
\* this boot or by an earlier one; stated of a rootCA.pem that a boot of
\* this behaviour wrote under a key it generated (the keys above 1), so
\* that every boot that could have installed it is in the behaviour.
C35_ServesOnlyInstalledCa ==
    (boot.pc = "listening" /\ fs.caCert > 1) => fs.caCert \in trust

\* C36: after a successful provision_certificates every proxy domain has
\* both <domain>.pem and <domain>.key, and they are the certificate and
\* the private key of one issuance.
C36_PemAndKeyOfOneIssuance ==
    ProvisionOk =>
       \A d \in ProxyDomainSet :
          /\ fs.pem[d].exists
          /\ fs.key[d] # 0
          /\ fs.key[d] = fs.pem[d].leafKey

\* C40: a leaf that provisioning reuses (should_reissue false) has not
\* expired: with the mtime of the file as the time of issuance and
\* notAfter = issuance + valid_days, what remains of its validity at the
\* call is strictly more than renew_before_days days, for every renewal
\* window that configuration loading accepts.
C40_ReusedLeafNotExpired ==
    (/\ CalledShouldReissue
     /\ ~call[1]
     /\ tls_error(args.valid_days, args.renew_before_days) = "") =>
        LET age == args.now - args.file.mtime
            remaining == Days(args.valid_days) - age
        IN  /\ args.file.exists
            /\ age >= 0
            /\ remaining > Days(args.renew_before_days)
            /\ remaining > 0

\* C40 witness: with 90/30 a file one second younger than 60 days was
\* reused, with one second more than 30 days left
C40_Witness ==
    /\ CalledShouldReissue
    /\ ~call[1]
    /\ args.valid_days = 90
    /\ args.renew_before_days = 30
    /\ args.now - args.file.mtime = Days(60) - 1

====
